---- MODULE Spec2Model ----
(***************************************************************************)
(* Session and memory subsystem of the Bates advisor agent:                *)
(*   bates_agent/tools/session_memory.py  (StudentProfile, BatesMemoryBank,*)
(*                                         BatesSessionManager)            *)
(*   bates_agent/tools/observability.py   (BatesMetrics counters)          *)
(*   bates_agent/agent.py                 (route_to_specialist,            *)
(*                                         handle_multi_agent_query)       *)
(* Request handlers run on threads.  A block the code runs under           *)
(* `with self._lock` is one step; what a method does between two locked    *)
(* blocks it calls is a separate step, so other threads interleave there.  *)
(***************************************************************************)
EXTENDS Integers, Sequences, FiniteSets, TLC

VARIABLES
    now,                  \* the value datetime.now() returns
    active_sessions,      \* BatesSessionManager.active_sessions : session_id -> dict
    dict_heap,            \* the agent_context dict objects, by reference
    next_uuid,            \* uuid.uuid4(): the next fresh session id
    profiles,             \* BatesMemoryBank.profiles : student_id -> StudentProfile
    interaction_history,  \* BatesMemoryBank.interaction_history : student_id -> list
    counters,             \* BatesMetrics.counters (a defaultdict(int))
    profiles_file,        \* data/memory_bank/profiles.json on disk
    interactions_file,    \* data/memory_bank/interactions.json on disk
    bank_lock,            \* holder of BatesMemoryBank._lock, or None
    pc,                   \* per thread: the place it is at in its handler
    local,                \* per thread: the locals of the call it is running
    calls,                \* number of record/store calls started (bounds the runs)
    completed,            \* session_id -> number of record_interaction calls that returned
    forwarded,            \* <<current_topic read, metadata topic forwarded>> pairs
    recorded,             \* student_id -> number of interactions stored for the student
    raised,               \* the operations of which a call raised an exception
    saves_started,        \* number of _save_profiles runs started
    viewed,               \* student_id -> the add_program_view calls made, in order
    tally,                \* <<method, student_id>> -> number of calls of the method made
    lock_holder,          \* holders of the session manager's, the metrics' and the
                          \* tracer's _lock, or None
    current_trace,        \* BatesTracer.current_trace is set (a trace is current);
                          \* the trace it refers to is the last of `traces`
    traces                \* BatesTracer.traces: the status of each trace, in order

vars == <<now, active_sessions, dict_heap, next_uuid, profiles, interaction_history,
          counters, profiles_file, interactions_file, bank_lock, pc, local,
          calls, completed, forwarded, recorded, raised, saves_started, viewed,
          tally, lock_holder, current_trace, traces>>

sessVars == <<active_sessions, dict_heap, next_uuid>>
bankVars == <<profiles, interaction_history, counters>>
fileVars == <<profiles_file, interactions_file>>
monitorVars == <<lock_holder, current_trace, traces>>
ghostVars == <<calls, completed, forwarded, recorded, raised, saves_started, viewed,
               tally>>

-----------------------------------------------------------------------------
(* Bounds of the model *)
MaxClock == 1
MaxSessions == 2
MaxCalls == 2
MaxTouches == 1
MaxStores == 102
MaxOther == 2
MaxBankStores == 11
MaxHandles == 2
MaxWords == 3
MaxTopicStores == 4
MaxContexts == 2
MaxViews == 5
MaxSummaryViews == 1
MaxSaves == 1
MaxPersistStores == 1
MaxPersistViews == 2
MaxQuestions == 2
MaxRecords == 1
MaxProfileCalls == 3
MaxAsked == 52
MaxRecommended == 22

(* Constants of the program *)
HistoryCap == 100
QuestionsCap == 50
RecommendationsCap == 20
SaveEvery == 10
RecentWindow == 10
SummaryItems == 3

Threads == {"t1", "t2"}
None == "<None>"                  \* Python's None
StudentInputs == {None, "", "alice"}
TopicInputs == {"admissions"}
SessionInputs == 1..(MaxSessions + 1)
AgeInputs == {0, 1}
EmptyDict == << >>

-----------------------------------------------------------------------------
(* Python helpers *)

Min(a, b) == IF a < b THEN a ELSE b

\* s[-n:]
LastN(s, n) == IF Len(s) > n THEN SubSeq(s, Len(s) - n + 1, Len(s)) ELSE s

\* s[:n]
FirstN(s, n) == SubSeq(s, 1, Min(n, Len(s)))

\* d.get(k, default): the default only when the key is absent
DictGet(d, k, default) == IF k \in DOMAIN d THEN d[k] ELSE default

\* d.update(u)
DictUpdate(d, u) ==
    [k \in DOMAIN d \cup DOMAIN u |-> IF k \in DOMAIN u THEN u[k] ELSE d[k]]

\* x in list
InList(x, s) == \E k \in 1..Len(s) : s[k] = x

RECURSIVE Join(_, _)
\* sep.join(parts), every part a str
Join(parts, sep) ==
    IF Len(parts) = 0 THEN ""
    ELSE IF Len(parts) = 1 THEN parts[1]
    ELSE parts[1] \o sep \o Join(Tail(parts), sep)

\* a count of calls kept per key, one more for key k
Bump(f, k) == IF k \in DOMAIN f THEN [f EXCEPT ![k] = @ + 1] ELSE f @@ (k :> 1)

\* BatesMetrics.counters.get(name, 0)
CounterGet(c, name) == DictGet(c, name, 0)

\* BatesMetrics.increment_counter(name)
increment_counter(c, name) ==
    IF name \in DOMAIN c THEN [c EXCEPT ![name] = @ + 1] ELSE c @@ (name :> 1)

-----------------------------------------------------------------------------
(* StudentProfile *)

StudentProfile(student_id, t) ==
    [student_id |-> student_id, created_at |-> t, last_active |-> t,
     interests |-> << >>, programs_viewed |-> << >>, questions_asked |-> << >>,
     recommendations_given |-> << >>, interaction_count |-> 0,
     preferences |-> EmptyDict]

update_activity(p, t) ==
    [p EXCEPT !.last_active = t, !.interaction_count = @ + 1]

add_interest(p, interest) ==
    IF InList(interest, p.interests) THEN p
    ELSE [p EXCEPT !.interests = Append(@, interest)]

add_program_view(p, program) ==
    IF InList(program, p.programs_viewed) THEN p
    ELSE [p EXCEPT !.programs_viewed = Append(@, program)]

\* datetime.isoformat(), and datetime.fromisoformat() that parses it
isoformat(t) == "T" \o ToString(t)
fromisoformat(text) == CHOOSE t \in 0..MaxClock : isoformat(t) = text

\* StudentProfile.add_question: "Keep only last 50 questions"
add_question(p, question, category, t) ==
    [p EXCEPT !.questions_asked =
        LastN(Append(@, [question |-> question, category |-> category,
                         timestamp |-> isoformat(t)]), QuestionsCap)]

\* add_recommendation that keeps the oldest entries instead of the newest
add_recommendation_keepOldest(p, recommendation, context, t) ==
    [p EXCEPT !.recommendations_given =
        FirstN(Append(@, [recommendation |-> recommendation, context |-> context,
                          timestamp |-> isoformat(t)]), RecommendationsCap)]

\* StudentProfile.add_recommendation: "Keep only last 20 recommendations"
add_recommendation(p, recommendation, context, t) ==
    [p EXCEPT !.recommendations_given =
        LastN(Append(@, [recommendation |-> recommendation, context |-> context,
                         timestamp |-> isoformat(t)]), RecommendationsCap)]

\* StudentProfile.to_dict: the timestamps as text; the lists are the profile's
\* own list objects
to_dict(p) == [p EXCEPT !.created_at = isoformat(@), !.last_active = isoformat(@)]

\* from_dict that leaves the interaction count of the new profile as it is
from_dict_noCount(data) ==
    [student_id |-> data.student_id,
     created_at |-> fromisoformat(data.created_at),
     last_active |-> fromisoformat(data.last_active),
     interests |-> DictGet(data, "interests", << >>),
     programs_viewed |-> DictGet(data, "programs_viewed", << >>),
     questions_asked |-> DictGet(data, "questions_asked", << >>),
     recommendations_given |-> DictGet(data, "recommendations_given", << >>),
     interaction_count |-> 0,
     preferences |-> DictGet(data, "preferences", EmptyDict)]

\* StudentProfile.from_dict
from_dict(data) ==
    [student_id |-> data.student_id,
     created_at |-> fromisoformat(data.created_at),
     last_active |-> fromisoformat(data.last_active),
     interests |-> DictGet(data, "interests", << >>),
     programs_viewed |-> DictGet(data, "programs_viewed", << >>),
     questions_asked |-> DictGet(data, "questions_asked", << >>),
     recommendations_given |-> DictGet(data, "recommendations_given", << >>),
     interaction_count |-> DictGet(data, "interaction_count", 0),
     preferences |-> DictGet(data, "preferences", EmptyDict)]

-----------------------------------------------------------------------------
(* BatesMemoryBank *)

\* get_or_create_profile that makes a new profile at every call
get_or_create_profile_recreate(profs, student_id, t) ==
    [s \in DOMAIN profs \cup {student_id} |->
        IF s = student_id THEN update_activity(StudentProfile(student_id, t), t)
        ELSE profs[s]]

\* the locked block of get_or_create_profile; the caller gets the profile
\* object itself, which the model names by its student_id
get_or_create_profile(profs, student_id, t) ==
    LET base == IF student_id \in DOMAIN profs THEN profs
                ELSE profs @@ (student_id :> StudentProfile(student_id, t))
    IN  [base EXCEPT ![student_id] = update_activity(@, t)]

\* the interaction dict store_interaction builds; `metadata or {}` makes the
\* default None an empty dict, so a call without metadata passes EmptyDict
Interaction(t, type, content, metadata) ==
    [timestamp |-> isoformat(t), type |-> type, content |-> content,
     metadata |-> metadata]

\* the limit keeping the oldest entries instead of the newest
LimitHistory_keepOldest(h) == IF Len(h) > HistoryCap THEN FirstN(h, HistoryCap) ELSE h

\* "Limit history size per student"
LimitHistory(h) == IF Len(h) > HistoryCap THEN LastN(h, HistoryCap) ELSE h

\* the locked block of store_interaction, on the history map
store_interaction(hist, student_id, interaction) ==
    LET base == IF student_id \in DOMAIN hist THEN hist
                ELSE hist @@ (student_id :> << >>)
    IN  [base EXCEPT ![student_id] = LimitHistory(Append(@, interaction))]

\* the test of "Auto-save periodically", on the counter as read outside the lock
SaveDue(c) == CounterGet(c, "interactions_stored") % SaveEvery = 0

\* what json.dump writes to profiles.json / interactions.json
ProfilesSnapshot(profs) == [s \in DOMAIN profs |-> to_dict(profs[s])]
WrittenFile(data) == [status |-> "complete", data |-> data]
AbsentFile == [status |-> "absent", data |-> EmptyDict]

\* the metadata values that are a str or None
NullableKeys == {"topic", "agent_response"}

\* JSON text of a str or None, and the value json.load makes of it
json_dump_value(v) ==
    IF v = None THEN [json |-> "null"] ELSE [json |-> "string", text |-> v]
json_load_value(j) == IF j.json = "null" THEN None ELSE j.text

\* JSON text of the interaction history (str, number and list values are
\* written as themselves), and the dict json.load makes of it
json_dump(hist) ==
    [s \in DOMAIN hist |->
        [k \in 1..Len(hist[s]) |->
            [hist[s][k] EXCEPT !.metadata =
                [key \in DOMAIN @ |-> IF key \in NullableKeys
                                      THEN json_dump_value(@[key]) ELSE @[key]]]]]
json_load(text) ==
    [s \in DOMAIN text |->
        [k \in 1..Len(text[s]) |->
            [text[s][k] EXCEPT !.metadata =
                [key \in DOMAIN @ |-> IF key \in NullableKeys
                                      THEN json_load_value(@[key]) ELSE @[key]]]]]

\* a load that reads interactions.json only after it has read profiles.json
load_profiles_needsBoth(pfile, hfile) ==
    [profiles |-> IF pfile.status = "complete"
                  THEN [s \in DOMAIN pfile.data |-> from_dict(pfile.data[s])]
                  ELSE << >>,
     interaction_history |-> IF pfile.status = "complete" /\ hfile.status = "complete"
                             THEN json_load(hfile.data)
                             ELSE << >>]

\* _load_profiles of a new BatesMemoryBank: a file that does not exist is
\* skipped; json.load raises on a partly written file, and the except clause
\* ends the load where it is
load_profiles(pfile, hfile) ==
    [profiles |-> IF pfile.status = "complete"
                  THEN [s \in DOMAIN pfile.data |-> from_dict(pfile.data[s])]
                  ELSE << >>,
     interaction_history |-> IF pfile.status # "partial" /\ hfile.status = "complete"
                             THEN json_load(hfile.data)
                             ELSE << >>]

\* the summary made without the programs the student viewed
generate_context_summary_noPrograms(profile, interactions) ==
    LET recent == LastN(interactions, SummaryItems)
        recent_topics ==
            [k \in 1..Len(recent) |->
                DictGet(DictGet(recent[k], "metadata", EmptyDict), "topic", "general")]
        p1 == IF Len(profile.interests) > 0
              THEN << "Student interests: "
                      \o Join(FirstN(profile.interests, SummaryItems), ", ") >>
              ELSE << >>
        p3 == IF Len(interactions) > 0
              THEN << "Recent topics: " \o Join(recent_topics, ", ") >>
              ELSE << >>
        summary_parts == p1 \o p3
    IN  IF \E k \in 1..Len(recent_topics) : recent_topics[k] = None
        THEN [raised |-> TRUE, value |-> "TypeError"]
        ELSE [raised |-> FALSE,
              value |-> IF Len(summary_parts) > 0 THEN Join(summary_parts, "; ")
                        ELSE "New student interaction"]

\* i.get("metadata", {}).get("topic", "general")
TopicOf(i) == DictGet(DictGet(i, "metadata", EmptyDict), "topic", "general")

\* _generate_context_summary: str.join raises TypeError on an item that is
\* not a str, so the result is the summary or the exception
generate_context_summary(profile, interactions) ==
    LET recent == LastN(interactions, SummaryItems)
        recent_topics == [k \in 1..Len(recent) |-> TopicOf(recent[k])]
        p1 == IF Len(profile.interests) > 0
              THEN << "Student interests: "
                      \o Join(FirstN(profile.interests, SummaryItems), ", ") >>
              ELSE << >>
        p2 == IF Len(profile.programs_viewed) > 0
              THEN << "Programs viewed: "
                      \o Join(LastN(profile.programs_viewed, SummaryItems), ", ") >>
              ELSE << >>
        p3 == IF Len(interactions) > 0
              THEN << "Recent topics: " \o Join(recent_topics, ", ") >>
              ELSE << >>
        summary_parts == p1 \o p2 \o p3
    IN  IF \E k \in 1..Len(recent_topics) : recent_topics[k] = None
        THEN [raised |-> TRUE, value |-> "TypeError"]
        ELSE [raised |-> FALSE,
              value |-> IF Len(summary_parts) > 0 THEN Join(summary_parts, "; ")
                        ELSE "New student interaction"]

-----------------------------------------------------------------------------
(* BatesSessionManager: the locked blocks, on the session table *)

\* A session id stands for the text uuid.uuid4() gave: its last digit stands for
\* the first 8 characters of the text and the digits before it for the rest;
\* PrefixSpace bounds the number of different first 8 characters
PrefixSpace == 10

\* session_id[:8]
First8(session_id) == session_id % PrefixSpace

\* f"anonymous_{session_id[:8]}"
AnonymousId(session_id) == "anonymous_" \o ToString(First8(session_id))

\* `if student_id is None`: an empty student_id is kept
ResolveStudent_noneOnly(student_id, session_id) ==
    IF student_id = None THEN AnonymousId(session_id) ELSE student_id

\* `if not student_id`
ResolveStudent(student_id, session_id) ==
    IF student_id = None \/ student_id = "" THEN AnonymousId(session_id)
    ELSE student_id

\* session_data of create_session; agent_context is a reference to a new dict
NewSession(session_id, student_id, t) ==
    [session_id |-> session_id, student_id |-> student_id, created_at |-> t,
     last_activity |-> t, interaction_count |-> 0, current_topic |-> None,
     agent_context |-> session_id]

\* the read that leaves last_activity as it finds it
TouchSession_noRefresh(sessions, session_id, t) == sessions

\* the read of a table that makes a session for an id it does not hold
TouchSession_upsert(sessions, session_id, t) ==
    IF session_id \in DOMAIN sessions
    THEN [sessions EXCEPT ![session_id].last_activity = t]
    ELSE sessions @@ (session_id :> NewSession(session_id, AnonymousId(session_id), t))

\* get_session's locked block: the table after the read
TouchSession(sessions, session_id, t) ==
    IF session_id \in DOMAIN sessions
    THEN [sessions EXCEPT ![session_id].last_activity = t]
    ELSE sessions

\* session.copy(): a new dict with the same items; agent_context stays the
\* same reference
SessionCopy(session) == session

\* update_session with the refresh of last_activity made before the merge
update_session_mergeLast(sessions, session_id, updates, t) ==
    IF session_id \in DOMAIN sessions
    THEN [sessions EXCEPT ![session_id] =
              DictUpdate([@ EXCEPT !["last_activity"] = t], updates)]
    ELSE sessions

\* update_session's locked block
update_session(sessions, session_id, updates, t) ==
    IF session_id \in DOMAIN sessions
    THEN [sessions EXCEPT ![session_id] =
              [DictUpdate(@, updates) EXCEPT !["last_activity"] = t]]
    ELSE sessions

\* expired_sessions by the age of the session instead of its last activity
ExpiredSessions_byCreation(sessions, cutoff_time) ==
    {sid \in DOMAIN sessions : sessions[sid].created_at < cutoff_time}

\* expired_sessions with the comparison made inclusive
ExpiredSessions_inclusive(sessions, cutoff_time) ==
    {sid \in DOMAIN sessions : sessions[sid].last_activity <= cutoff_time}

\* expired_sessions of cleanup_expired_sessions
ExpiredSessions(sessions, cutoff_time) ==
    {sid \in DOMAIN sessions : sessions[sid].last_activity < cutoff_time}

\* the metadata record_interaction forwards to the memory bank
RecordMetadata(session, session_id, agent_response) ==
    [session_id |-> session_id, agent_response |-> agent_response,
     topic |-> DictGet(session, "current_topic", "general")]

Restrict(f, S) == [x \in S |-> f[x]]

-----------------------------------------------------------------------------
(* agent.py: routing.  A str is a sequence of characters. *)

\* str.lower(), on the letters
UpperToLower ==
        ("A" :> "a") @@ ("B" :> "b") @@ ("C" :> "c") @@ ("D" :> "d") @@ ("E" :> "e") @@
        ("F" :> "f") @@ ("G" :> "g") @@ ("H" :> "h") @@ ("I" :> "i") @@ ("J" :> "j") @@
        ("K" :> "k") @@ ("L" :> "l") @@ ("M" :> "m") @@ ("N" :> "n") @@ ("O" :> "o") @@
        ("P" :> "p") @@ ("Q" :> "q") @@ ("R" :> "r") @@ ("S" :> "s") @@ ("T" :> "t") @@
        ("U" :> "u") @@ ("V" :> "v") @@ ("W" :> "w") @@ ("X" :> "x") @@ ("Y" :> "y") @@
        ("Z" :> "z")

LowerChar(c) == IF c \in DOMAIN UpperToLower THEN UpperToLower[c] ELSE c

Lower(text) == [i \in 1..Len(text) |-> LowerChar(text[i])]

\* `keyword in text`
Contains(keyword, text) ==
    \E i \in 1..(Len(text) - Len(keyword) + 1) :
        SubSeq(text, i, i + Len(keyword) - 1) = keyword

\* any(keyword in text for keyword in keywords)
AnyKeyword(keywords, text) ==
    \E k \in 1..Len(keywords) : Contains(keywords[k], text)

\* route_to_specialist: the first keyword list
AdmissionsKeywords ==
    << <<"a", "d", "m", "i", "s", "s", "i", "o", "n">>,
       <<"a", "p", "p", "l", "y">>,
       <<"a", "p", "p", "l", "i", "c", "a", "t", "i", "o", "n">>,
       <<"r", "e", "q", "u", "i", "r", "e", "m", "e", "n", "t">>,
       <<"p", "r", "e", "r", "e", "q", "u", "i", "s", "i", "t", "e">>,
       <<"e", "n", "r", "o", "l", "l">>,
       <<"r", "e", "g", "i", "s", "t", "r", "a", "t", "i", "o", "n">>,
       <<"p", "l", "a", "c", "e", "m", "e", "n", "t">>,
       <<"t", "e", "s", "t">>,
       <<"t", "r", "a", "n", "s", "c", "r", "i", "p", "t">> >>

\* route_to_specialist: the second keyword list
AcademicsKeywords ==
    << <<"p", "r", "o", "g", "r", "a", "m">>,
       <<"c", "o", "u", "r", "s", "e">>,
       <<"c", "l", "a", "s", "s">>,
       <<"c", "u", "r", "r", "i", "c", "u", "l", "u", "m">>,
       <<"d", "e", "g", "r", "e", "e">>,
       <<"c", "e", "r", "t", "i", "f", "i", "c", "a", "t", "e">>,
       <<"m", "a", "j", "o", "r">>,
       <<"s", "t", "u", "d", "y">>,
       <<"a", "c", "a", "d", "e", "m", "i", "c">>,
       <<"c", "r", "e", "d", "i", "t">>,
       <<"s", "e", "m", "e", "s", "t", "e", "r">>,
       <<"q", "u", "a", "r", "t", "e", "r">> >>

\* route_to_specialist: the third keyword list
FinancialAidKeywords ==
    << <<"f", "i", "n", "a", "n", "c", "i", "a", "l">>,
       <<"a", "i", "d">>,
       <<"s", "c", "h", "o", "l", "a", "r", "s", "h", "i", "p">>,
       <<"g", "r", "a", "n", "t">>,
       <<"l", "o", "a", "n">>,
       <<"t", "u", "i", "t", "i", "o", "n">>,
       <<"c", "o", "s", "t">>,
       <<"f", "e", "e">>,
       <<"p", "a", "y", "m", "e", "n", "t">>,
       <<"f", "a", "f", "s", "a">>,
       <<"m", "o", "n", "e", "y">>,
       <<"a", "f", "f", "o", "r", "d">> >>

\* handle_multi_agent_query: complex_keywords
ComplexKeywords ==
    << <<"p", "r", "o", "g", "r", "a", "m">>,
       <<"c", "o", "s", "t">>,
       <<"r", "e", "q", "u", "i", "r", "e", "m", "e", "n", "t">>,
       <<"p", "a", "t", "h", "w", "a", "y">>,
       <<"c", "a", "r", "e", "e", "r">> >>

\* the queries the handlers are given: "Apply for financial aid program"; "program cost"; "tuition cost"; "career"; "hello";
\* "fafsa"
QueryInputs ==
    << <<"A", "p", "p", "l", "y", " ", "f", "o", "r", " ", "f", "i", "n", "a", "n", "c", "i", "a", "l", " ", "a", "i", "d", " ", "p", "r", "o", "g", "r", "a", "m">>,
       <<"p", "r", "o", "g", "r", "a", "m", " ", "c", "o", "s", "t">>,
       <<"t", "u", "i", "t", "i", "o", "n", " ", "c", "o", "s", "t">>,
       <<"c", "a", "r", "e", "e", "r">>,
       <<"h", "e", "l", "l", "o">>,
       <<"f", "a", "f", "s", "a">> >>

ProgramKeyword == <<"p", "r", "o", "g", "r", "a", "m">>

\* the routing decision with the academics keywords tested first
route_to_specialist_academicsFirst(query) ==
    LET query_lower == Lower(query)
        specialist ==
            IF AnyKeyword(AcademicsKeywords, query_lower) THEN "academics"
            ELSE IF AnyKeyword(AdmissionsKeywords, query_lower) THEN "admissions"
            ELSE IF AnyKeyword(FinancialAidKeywords, query_lower) THEN "financial_aid"
            ELSE "general"
    IN  [status |-> "success", specialist |-> specialist,
         has_agent |-> specialist # "general",
         routing_confidence |-> IF specialist # "general" THEN "high" ELSE "low"]

\* route_to_specialist: the routing decision (the specialist agents exist, so
\* `agent` is None for "general" alone)
route_to_specialist(query) ==
    LET query_lower == Lower(query)
        specialist ==
            IF AnyKeyword(AdmissionsKeywords, query_lower) THEN "admissions"
            ELSE IF AnyKeyword(AcademicsKeywords, query_lower) THEN "academics"
            ELSE IF AnyKeyword(FinancialAidKeywords, query_lower) THEN "financial_aid"
            ELSE "general"
    IN  [status |-> "success", specialist |-> specialist,
         has_agent |-> specialist # "general",
         routing_confidence |-> IF specialist # "general" THEN "high" ELSE "low"]

\* the test of the complex keywords taken as met by every query
IsComplex_always(query) == TRUE

\* `if any(keyword in query.lower() for keyword in complex_keywords)`
IsComplex(query) == AnyKeyword(ComplexKeywords, Lower(query))

\* the primary specialist's run with an except clause that only logs
PrimaryCall_logOnly(responses, specialist, outcome) ==
    IF outcome = "ok" THEN responses @@ (specialist :> "response") ELSE responses

\* the primary specialist's run inside try/except: its text, or f"Error: {e}"
PrimaryCall(responses, specialist, outcome) ==
    responses @@ (specialist :> IF outcome = "ok" THEN "response" ELSE "Error: failure")

\* an auxiliary specialist's run with no try/except around it
AuxiliaryCall_unguarded(responses, key, outcome) ==
    [responses |-> IF outcome = "ok" THEN responses @@ (key :> "response") ELSE responses,
     propagates |-> outcome # "ok"]

\* an auxiliary specialist's run inside try/except: its text under `key`; the
\* except clause logs the error and nothing else
AuxiliaryCall(responses, key, outcome) ==
    [responses |-> IF outcome = "ok" THEN responses @@ (key :> "response") ELSE responses,
     propagates |-> FALSE]

\* the outer `except Exception as e` of handle_multi_agent_query
ErrorEnvelope(message) == [status |-> "error", message |-> message]

\* the dict handle_multi_agent_query returns at its end
SuccessEnvelope(h) ==
    [status |-> "success", query |-> h.query,
     primary_specialist |-> h.routing.specialist,
     session_id |-> h.session_id, student_context |-> h.context_summary,
     responses |-> h.responses]

-----------------------------------------------------------------------------
(* Steps of the request handlers *)

Init ==
    /\ now = 0
    /\ active_sessions = << >>
    /\ dict_heap = << >>
    /\ next_uuid = 1
    /\ profiles = << >>
    /\ interaction_history = << >>
    /\ counters = << >>
    /\ profiles_file = AbsentFile
    /\ interactions_file = AbsentFile
    /\ bank_lock = None
    /\ pc = [t \in Threads |-> "idle"]
    /\ local = [t \in Threads |-> [op |-> "none"]]
    /\ calls = 0
    /\ completed = [sid \in SessionInputs |-> 0]
    /\ forwarded = {}
    /\ recorded = << >>
    /\ raised = {}
    /\ saves_started = 0
    /\ viewed = << >>
    /\ tally = << >>
    /\ lock_holder = [l \in {"session", "metrics", "tracer"} |-> None]
    /\ current_trace = FALSE
    /\ traces = << >>

\* the call of thread t returns (or raises): its locals keep the result
Finish(t, result, how) ==
    /\ pc' = [pc EXCEPT ![t] = "idle"]
    /\ local' = [local EXCEPT ![t] = result]
    /\ raised' = IF how = "raised" THEN raised \cup {result.op} ELSE raised

\* the locals of a finished handle_multi_agent_query call
HandleResult(h, envelope) ==
    [op |-> "handle_multi_agent_query", query |-> h.query,
     session_id |-> h.session_id, invoked |-> h.invoked, envelope |-> envelope]

\* a call made by handle_multi_agent_query returns to it (its locals are the
\* frame), or raises into its outer except clause; any other call is finished
Return(t, result, how) ==
    IF "frame" \in DOMAIN local[t]
    THEN IF how = "raised"
         THEN /\ pc' = [pc EXCEPT ![t] = "idle"]
              /\ local' = [local EXCEPT ![t] =
                                HandleResult(local[t].frame, ErrorEnvelope(result.error))]
              /\ raised' = raised \cup {result.op}
         ELSE /\ pc' = [pc EXCEPT ![t] = local[t].frame.resume]
              /\ local' = [local EXCEPT ![t] = [local[t].frame EXCEPT !.result = result]]
              /\ raised' = raised
    ELSE Finish(t, result, how)

Goto(t, place, locals) ==
    /\ pc' = [pc EXCEPT ![t] = place]
    /\ local' = [local EXCEPT ![t] = locals]
    /\ raised' = raised

\* datetime.now() advances
Tick ==
    /\ now < MaxClock
    /\ now' = now + 1
    /\ UNCHANGED <<sessVars, bankVars, fileVars, bank_lock, monitorVars, pc, local,
                   ghostVars>>

\* create_session, up to the end of its locked block; session_id is the text
\* uuid4 gave, which no live session has
CreateRegisterAs(t, student_id, session_id) ==
    /\ pc[t] = "idle"
    /\ next_uuid <= MaxSessions
    /\ session_id \notin DOMAIN active_sessions
    /\ LET student == ResolveStudent(student_id, session_id)
       IN  /\ active_sessions' =
                  active_sessions @@ (session_id :> NewSession(session_id, student, now))
           /\ dict_heap' = dict_heap @@ (session_id :> {})
           /\ next_uuid' = next_uuid + 1
           /\ Goto(t, "context_profile",
                   [op |-> "create_session", session_id |-> session_id,
                    student_id |-> student])
    /\ UNCHANGED <<now, viewed, tally, monitorVars, bankVars, fileVars, bank_lock, calls, completed, forwarded, recorded,
                   saves_started>>

\* create_session where uuid4 gives the next of ids that differ in their first
\* 8 characters
CreateRegister(t, student_id) == CreateRegisterAs(t, student_id, next_uuid)

\* memory_bank.get_student_context called by a request handler
ContextCall(t, student_id) ==
    /\ pc[t] = "idle"
    /\ student_id \in DOMAIN profiles => profiles[student_id].interaction_count < MaxTouches
    /\ Goto(t, "context_profile", [op |-> "get_student_context", student_id |-> student_id])
    /\ UNCHANGED <<now, viewed, tally, monitorVars, sessVars, bankVars, fileVars, bank_lock, calls, completed,
                   forwarded, recorded, saves_started>>

\* get_student_context: self.get_or_create_profile(student_id)
ContextProfile(t) ==
    /\ pc[t] = "context_profile"
    /\ bank_lock = None
    /\ profiles' = get_or_create_profile(profiles, local[t].student_id, now)
    /\ tally' = Bump(tally, <<"get_or_create_profile", local[t].student_id>>)
    /\ Goto(t, "context_summary", local[t])
    /\ UNCHANGED <<now, viewed, monitorVars, sessVars, interaction_history, counters, fileVars, bank_lock,
                   calls, completed, forwarded, recorded, saves_started>>

\* get_student_context: the read of the history (no lock) and the summary;
\* create_session drops the context and returns the session id
ContextSummary(t) ==
    /\ pc[t] = "context_summary"
    /\ LET student_id == local[t].student_id
           recent_interactions ==
               LastN(DictGet(interaction_history, student_id, << >>), RecentWindow)
           summary == generate_context_summary(profiles[student_id], recent_interactions)
       IN  IF summary.raised
           THEN Return(t, [op |-> local[t].op, error |-> summary.value], "raised")
           ELSE IF local[t].op = "create_session"
           THEN Return(t, [op |-> "create_session", session_id |-> local[t].session_id,
                           student_id |-> student_id], "returned")
           ELSE Return(t, [op |-> "get_student_context", profile_ref |-> student_id,
                           profile |-> to_dict(profiles[student_id]),
                           context_summary |-> summary.value], "returned")
    /\ UNCHANGED <<now, viewed, tally, monitorVars, sessVars, bankVars, fileVars, bank_lock, calls, completed,
                   forwarded, recorded, saves_started>>

\* get_or_create_profile called by a request handler, at most `limit` times
\* for a student: returns the profile object
GetProfileUpTo(t, student_id, limit) ==
    /\ pc[t] = "idle"
    /\ bank_lock = None
    /\ student_id \in DOMAIN profiles => profiles[student_id].interaction_count < limit
    /\ profiles' = get_or_create_profile(profiles, student_id, now)
    /\ tally' = Bump(tally, <<"get_or_create_profile", student_id>>)
    /\ Finish(t, [op |-> "get_or_create_profile", profile_ref |-> student_id], "returned")
    /\ UNCHANGED <<now, viewed, monitorVars, sessVars, interaction_history, counters, fileVars, bank_lock,
                   calls, completed, forwarded, recorded, saves_started>>

\* get_or_create_profile called by a request handler
GetProfile(t, student_id) == GetProfileUpTo(t, student_id, MaxTouches)

\* get_session
GetSession(t, session_id) ==
    /\ pc[t] = "idle"
    /\ active_sessions' = TouchSession(active_sessions, session_id, now)
    /\ IF session_id \in DOMAIN active_sessions
       THEN Finish(t, [op |-> "get_session", found |-> TRUE,
                       session |-> SessionCopy(active_sessions'[session_id])], "returned")
       ELSE Finish(t, [op |-> "get_session", found |-> FALSE], "returned")
    /\ UNCHANGED <<now, viewed, tally, monitorVars, dict_heap, next_uuid, bankVars, fileVars, bank_lock, calls,
                   completed, forwarded, recorded, saves_started>>

\* update_session called by a request handler with a new current_topic
UpdateSession(t, session_id, topic) ==
    /\ pc[t] = "idle"
    /\ active_sessions' =
           update_session(active_sessions, session_id, [current_topic |-> topic], now)
    /\ Finish(t, [op |-> "update_session"], "returned")
    /\ UNCHANGED <<now, viewed, tally, monitorVars, dict_heap, next_uuid, bankVars, fileVars, bank_lock, calls,
                   completed, forwarded, recorded, saves_started>>

\* record_interaction: session = self.get_session(session_id); if not session: return
RecordGet(t, session_id) ==
    /\ pc[t] = "idle"
    /\ calls < MaxCalls
    /\ calls' = calls + 1
    /\ active_sessions' = TouchSession(active_sessions, session_id, now)
    /\ IF session_id \in DOMAIN active_sessions
       THEN Goto(t, "record_update",
                 [op |-> "record_interaction", session_id |-> session_id,
                  session |-> SessionCopy(active_sessions'[session_id]),
                  interaction_type |-> "routing", content |-> "q",
                  agent_response |-> "r"])
       ELSE Finish(t, [op |-> "record_interaction", found |-> FALSE], "returned")
    /\ UNCHANGED <<now, viewed, tally, monitorVars, dict_heap, next_uuid, bankVars, fileVars, bank_lock,
                   completed, forwarded, recorded, saves_started>>

\* record_interaction: self.update_session(session_id, {"interaction_count": ... + 1})
RecordUpdate(t) ==
    /\ pc[t] = "record_update"
    /\ active_sessions' =
           update_session(active_sessions, local[t].session_id,
               [interaction_count |-> local[t].session.interaction_count + 1], now)
    /\ Goto(t, "record_store", local[t])
    /\ UNCHANGED <<now, viewed, tally, monitorVars, dict_heap, next_uuid, bankVars, fileVars, bank_lock, calls,
                   completed, forwarded, recorded, saves_started>>

\* record_interaction: the metadata, and store_interaction's locked block
RecordStore(t) ==
    /\ pc[t] = "record_store"
    /\ bank_lock = None
    /\ LET session == local[t].session
           metadata == RecordMetadata(session, local[t].session_id, local[t].agent_response)
       IN  /\ interaction_history' =
                  store_interaction(interaction_history, session.student_id,
                      Interaction(now, local[t].interaction_type, local[t].content, metadata))
           /\ forwarded' = forwarded \cup {<<session.current_topic, metadata.topic>>}
           /\ recorded' = Bump(recorded, session.student_id)
    /\ counters' = increment_counter(counters, "interactions_stored")
    /\ Goto(t, "store_check", local[t])
    /\ UNCHANGED <<now, viewed, tally, monitorVars, sessVars, profiles, fileVars, bank_lock, calls, completed,
                   saves_started>>

\* _save_profiles run to its end: both files rewritten from the bank's state
SavedProfiles == WrittenFile(ProfilesSnapshot(profiles))
SavedInteractions == WrittenFile(json_dump(interaction_history))

\* store_interaction after its locked block: "Auto-save periodically", with
\* the _save_profiles run it starts taken as one step
StoreCheck(t) ==
    /\ pc[t] = "store_check"
    /\ IF SaveDue(counters)
       THEN /\ bank_lock = None
            /\ profiles_file' = SavedProfiles
            /\ interactions_file' = SavedInteractions
            /\ saves_started' = saves_started + 1
       ELSE UNCHANGED <<fileVars, saves_started>>
    /\ completed' = IF local[t].op = "record_interaction"
                    THEN [completed EXCEPT ![local[t].session_id] = @ + 1]
                    ELSE completed
    /\ Return(t, [op |-> local[t].op, found |-> TRUE], "returned")
    /\ UNCHANGED <<now, viewed, tally, monitorVars, sessVars, bankVars, bank_lock, calls, forwarded, recorded>>

\* cleanup_expired_sessions: cutoff_time, computed before the lock is taken
SweepCutoff(t, max_age_hours) ==
    /\ pc[t] = "idle"
    /\ Goto(t, "sweep", [op |-> "cleanup_expired_sessions",
                         max_age_hours |-> max_age_hours,
                         cutoff_time |-> now - max_age_hours])
    /\ UNCHANGED <<now, viewed, tally, monitorVars, sessVars, bankVars, fileVars, bank_lock, calls, completed,
                   forwarded, recorded, saves_started>>

\* a sweep that deletes, with a session, its student's profile and history
SweepRemove_cascade(t) ==
    /\ pc[t] = "sweep"
    /\ LET expired_sessions == ExpiredSessions(active_sessions, local[t].cutoff_time)
           kept == DOMAIN active_sessions \ expired_sessions
           gone == {active_sessions[sid].student_id : sid \in expired_sessions}
       IN  /\ active_sessions' = Restrict(active_sessions, kept)
           /\ dict_heap' = Restrict(dict_heap, kept)
           /\ profiles' = Restrict(profiles, DOMAIN profiles \ gone)
           /\ interaction_history' =
                  Restrict(interaction_history, DOMAIN interaction_history \ gone)
           /\ Finish(t, [op |-> "cleanup_expired_sessions",
                         max_age_hours |-> local[t].max_age_hours,
                         cutoff_time |-> local[t].cutoff_time,
                         expired_sessions |-> expired_sessions], "returned")
    /\ UNCHANGED <<now, viewed, tally, monitorVars, next_uuid, counters, fileVars,
                   bank_lock, calls, completed, forwarded, recorded, saves_started>>

\* cleanup_expired_sessions: the locked block
SweepRemove(t) ==
    /\ pc[t] = "sweep"
    /\ LET expired_sessions == ExpiredSessions(active_sessions, local[t].cutoff_time)
           kept == DOMAIN active_sessions \ expired_sessions
       IN  /\ active_sessions' = Restrict(active_sessions, kept)
           /\ dict_heap' = Restrict(dict_heap, kept)
           /\ Finish(t, [op |-> "cleanup_expired_sessions",
                         max_age_hours |-> local[t].max_age_hours,
                         cutoff_time |-> local[t].cutoff_time,
                         expired_sessions |-> expired_sessions], "returned")
    /\ UNCHANGED <<now, viewed, tally, monitorVars, next_uuid, bankVars, fileVars, bank_lock, calls, completed,
                   forwarded, recorded, saves_started>>

\* the caller of get_session sets a key of the dict it was given
MutateSessionCopy(t) ==
    /\ pc[t] = "idle"
    /\ local[t].op = "get_session"
    /\ local[t].found
    /\ local[t].session.current_topic # "mine"
    /\ local' = [local EXCEPT ![t].session.current_topic = "mine"]
    /\ UNCHANGED <<now, sessVars, bankVars, fileVars, bank_lock, monitorVars, pc,
                   ghostVars>>

\* the caller of get_session writes session["agent_context"]["k"]
MutateAgentContext(t) ==
    /\ pc[t] = "idle"
    /\ local[t].op = "get_session"
    /\ local[t].found
    /\ local[t].session.agent_context \in DOMAIN dict_heap
    /\ "k" \notin dict_heap[local[t].session.agent_context]
    /\ dict_heap' = [dict_heap EXCEPT ![local[t].session.agent_context] = @ \cup {"k"}]
    /\ UNCHANGED <<now, active_sessions, next_uuid, bankVars, fileVars, bank_lock,
                   monitorVars, pc, local, ghostVars>>

\* the caller of get_or_create_profile appends to profile.interests, or the
\* caller of get_student_context to context["profile"]["interests"]: the
\* same list object
MutateProfile(t) ==
    /\ pc[t] = "idle"
    /\ local[t].op \in {"get_or_create_profile", "get_student_context"}
    /\ "profile_ref" \in DOMAIN local[t]
    /\ Len(profiles[local[t].profile_ref].interests) = 0
    /\ profiles' = [profiles EXCEPT ![local[t].profile_ref].interests = Append(@, "welding")]
    /\ UNCHANGED <<now, sessVars, interaction_history, counters, fileVars, bank_lock,
                   monitorVars, pc, local, ghostVars>>

CallerMutates == \E t \in Threads :
    MutateSessionCopy(t) \/ MutateAgentContext(t) \/ MutateProfile(t)

\* store_interaction called by a request handler, without metadata: its locked
\* block.  The content is the ordinal of the interaction among the student's.
StoreCall(t, student_id, limit, place) ==
    /\ pc[t] = "idle"
    /\ bank_lock = None
    /\ calls < limit
    /\ calls' = calls + 1
    /\ interaction_history' =
           store_interaction(interaction_history, student_id,
               Interaction(now, "query", DictGet(recorded, student_id, 0) + 1, EmptyDict))
    /\ recorded' = Bump(recorded, student_id)
    /\ counters' = increment_counter(counters, "interactions_stored")
    /\ Goto(t, place, [op |-> "store_interaction", student_id |-> student_id])
    /\ UNCHANGED <<now, viewed, tally, monitorVars, sessVars, profiles, fileVars, bank_lock, completed, forwarded,
                   saves_started>>

\* store_interaction after its locked block: `if ... % 10 == 0`
SaveCheck(t) ==
    /\ pc[t] = "save_check"
    /\ IF SaveDue(counters)
       THEN /\ saves_started' = saves_started + 1
            /\ Goto(t, "save_acquire", local[t])
       ELSE /\ saves_started' = saves_started
            /\ Finish(t, [op |-> local[t].op, found |-> TRUE], "returned")
    /\ UNCHANGED <<now, viewed, tally, monitorVars, sessVars, bankVars, fileVars, bank_lock, calls, completed,
                   forwarded, recorded>>

\* _save_profiles: `with self._lock` and profiles_data
SaveAcquire(t) ==
    /\ pc[t] = "save_acquire"
    /\ bank_lock = None
    /\ bank_lock' = t
    /\ Goto(t, "save_open_profiles",
            [op |-> local[t].op, profiles_data |-> ProfilesSnapshot(profiles)])
    /\ UNCHANGED <<now, viewed, tally, monitorVars, sessVars, bankVars, fileVars, calls, completed, forwarded,
                   recorded, saves_started>>

\* open(path, 'w') empties the file in place; until the dump is complete a
\* reader finds a partly written file
OpenedFile == [status |-> "partial", data |-> EmptyDict]

\* _save_profiles: open(profiles.json, 'w')
SaveOpenProfiles(t) ==
    /\ pc[t] = "save_open_profiles"
    /\ profiles_file' = OpenedFile
    /\ Goto(t, "save_dump_profiles", local[t])
    /\ UNCHANGED <<now, viewed, tally, monitorVars, sessVars, bankVars, interactions_file, bank_lock, calls,
                   completed, forwarded, recorded, saves_started>>

\* _save_profiles: json.dump(profiles_data, f) and the close of the file
SaveDumpProfiles(t) ==
    /\ pc[t] = "save_dump_profiles"
    /\ profiles_file' = WrittenFile(local[t].profiles_data)
    /\ Goto(t, "save_open_interactions", local[t])
    /\ UNCHANGED <<now, viewed, tally, monitorVars, sessVars, bankVars, interactions_file, bank_lock, calls,
                   completed, forwarded, recorded, saves_started>>

\* _save_profiles: open(interactions.json, 'w')
SaveOpenInteractions(t) ==
    /\ pc[t] = "save_open_interactions"
    /\ interactions_file' = OpenedFile
    /\ Goto(t, "save_dump_interactions", local[t])
    /\ UNCHANGED <<now, viewed, tally, monitorVars, sessVars, bankVars, profiles_file, bank_lock, calls,
                   completed, forwarded, recorded, saves_started>>

\* _save_profiles: json.dump(self.interaction_history, f), the close of the
\* file and the release of the lock
SaveDumpInteractions(t) ==
    /\ pc[t] = "save_dump_interactions"
    /\ interactions_file' = WrittenFile(json_dump(interaction_history))
    /\ bank_lock' = None
    /\ Finish(t, [op |-> local[t].op, found |-> TRUE], "returned")
    /\ UNCHANGED <<now, viewed, tally, monitorVars, sessVars, bankVars, profiles_file, calls, completed,
                   forwarded, recorded, saves_started>>

\* the places of _save_profiles at which a file is opened or written
SavePlaces == {"save_open_profiles", "save_dump_profiles",
               "save_open_interactions", "save_dump_interactions"}

\* a failed write whose exception leaves _save_profiles and store_interaction
SaveFail_propagates(t) ==
    /\ pc[t] \in SavePlaces
    /\ bank_lock' = None
    /\ Finish(t, [op |-> local[t].op, error |-> "OSError"], "raised")
    /\ UNCHANGED <<now, viewed, tally, monitorVars, sessVars, bankVars, fileVars, calls,
                   completed, forwarded, recorded, saves_started>>

\* _save_profiles: the open() or the json.dump at which the thread is raises
\* (OSError).  The `with` blocks close the file as it is and release the lock,
\* `except Exception` logs the error, and the call returns to its caller.
SaveFail(t) ==
    /\ pc[t] \in SavePlaces
    /\ bank_lock' = None
    /\ Finish(t, [op |-> local[t].op, found |-> TRUE, save_failed |-> TRUE,
                  stored |-> CounterGet(counters, "interactions_stored")], "returned")
    /\ UNCHANGED <<now, viewed, tally, monitorVars, sessVars, bankVars, fileVars, calls,
                   completed, forwarded, recorded, saves_started>>

\* the locals of handle_multi_agent_query; `invoked` notes the outcome of each
\* specialist run the call made
HandleLocals(query, session_id) ==
    [op |-> "handle_multi_agent_query", query |-> query, session_id |-> session_id,
     resume |-> "handle_get_session", result |-> [op |-> "none"],
     routing |-> [status |-> "none"], context_summary |-> None,
     responses |-> EmptyDict, invoked |-> EmptyDict]

\* what record_interaction keeps after its get_session, called from handle
RecordLocals(h, session, interaction_type, agent_response, resume) ==
    [op |-> "record_interaction", session_id |-> h.session_id, session |-> session,
     interaction_type |-> interaction_type, content |-> h.query,
     agent_response |-> agent_response, frame |-> [h EXCEPT !.resume = resume]]

\* handle_multi_agent_query without a session id: create_session(), up to the
\* end of its locked block
HandleCreate(t, query) ==
    /\ pc[t] = "idle"
    /\ calls < MaxHandles
    /\ next_uuid <= MaxSessions
    /\ calls' = calls + 1
    /\ LET session_id == next_uuid
           student == ResolveStudent(None, session_id)
       IN  /\ active_sessions' =
                  active_sessions @@ (session_id :> NewSession(session_id, student, now))
           /\ dict_heap' = dict_heap @@ (session_id :> {})
           /\ next_uuid' = next_uuid + 1
           /\ Goto(t, "context_profile",
                   [op |-> "create_session", session_id |-> session_id,
                    student_id |-> student, frame |-> HandleLocals(query, session_id)])
    /\ UNCHANGED <<now, viewed, tally, monitorVars, bankVars, fileVars, bank_lock, completed, forwarded, recorded,
                   saves_started>>

\* handle_multi_agent_query with a session id
HandleWith(t, query, session_id) ==
    /\ pc[t] = "idle"
    /\ calls < MaxHandles
    /\ calls' = calls + 1
    /\ Goto(t, "handle_get_session", HandleLocals(query, session_id))
    /\ UNCHANGED <<now, viewed, tally, monitorVars, sessVars, bankVars, fileVars, bank_lock, completed, forwarded,
                   recorded, saves_started>>

\* handle with no outer except clause: the TypeError of the None session leaves
\* the call
HandleGetSession_raises(t) ==
    /\ pc[t] = "handle_get_session"
    /\ LET h == local[t]
       IN  /\ active_sessions' = TouchSession(active_sessions, h.session_id, now)
           /\ IF h.session_id \in DOMAIN active_sessions
              THEN Goto(t, "context_profile",
                        [op |-> "get_student_context",
                         student_id |-> active_sessions[h.session_id].student_id,
                         frame |-> [h EXCEPT !.resume = "handle_route"]])
              ELSE Finish(t, HandleResult(h, ErrorEnvelope("TypeError")), "raised")
    /\ UNCHANGED <<now, viewed, tally, monitorVars, dict_heap, next_uuid, bankVars, fileVars, bank_lock, calls,
                   completed, forwarded, recorded, saves_started>>

\* handle: session_manager.get_session(session_id)["student_id"]; None is not
\* subscriptable, and the TypeError goes to the outer except clause
HandleGetSession(t) ==
    /\ pc[t] = "handle_get_session"
    /\ LET h == local[t]
       IN  /\ active_sessions' = TouchSession(active_sessions, h.session_id, now)
           /\ IF h.session_id \in DOMAIN active_sessions
              THEN Goto(t, "context_profile",
                        [op |-> "get_student_context",
                         student_id |-> active_sessions[h.session_id].student_id,
                         frame |-> [h EXCEPT !.resume = "handle_route"]])
              ELSE Finish(t, HandleResult(h, ErrorEnvelope("TypeError")), "returned")
    /\ UNCHANGED <<now, viewed, tally, monitorVars, dict_heap, next_uuid, bankVars, fileVars, bank_lock, calls,
                   completed, forwarded, recorded, saves_started>>

\* handle: route_to_specialist(query, session_id), up to the get_session of the
\* record_interaction it makes
HandleRoute(t) ==
    /\ pc[t] = "handle_route"
    /\ LET h == [local[t] EXCEPT !.routing = route_to_specialist(local[t].query),
                                 !.context_summary = local[t].result.context_summary]
       IN  /\ active_sessions' = TouchSession(active_sessions, h.session_id, now)
           /\ IF h.session_id \in DOMAIN active_sessions
              THEN Goto(t, "record_update",
                        RecordLocals(h, SessionCopy(active_sessions'[h.session_id]),
                                     "routing", "Routed", "handle_primary"))
              ELSE Goto(t, "handle_primary", h)
    /\ UNCHANGED <<now, viewed, tally, monitorVars, dict_heap, next_uuid, bankVars, fileVars, bank_lock, calls,
                   completed, forwarded, recorded, saves_started>>

\* handle: "Get response from primary specialist"; the run is the external
\* specialist's and gives a text or raises
HandlePrimary(t, outcome) ==
    /\ pc[t] = "handle_primary"
    /\ LET h == local[t]
       IN  IF h.routing.has_agent
           THEN Goto(t, "handle_academics",
                     [h EXCEPT !.responses =
                                   PrimaryCall(@, h.routing.specialist, outcome),
                               !.invoked = @ @@ ("primary" :> outcome)])
           ELSE /\ outcome = "ok"
                /\ Goto(t, "handle_academics", h)
    /\ UNCHANGED <<now, viewed, tally, monitorVars, sessVars, bankVars, fileVars, bank_lock, calls, completed,
                   forwarded, recorded, saves_started>>

\* an auxiliary run is made: the handler goes on, or the exception reaches the
\* outer except clause
HandleAuxiliary(t, h, key, outcome, place) ==
    LET r == AuxiliaryCall(h.responses, key, outcome)
        h2 == [h EXCEPT !.responses = r.responses, !.invoked = @ @@ (key :> outcome)]
    IN  IF r.propagates
        THEN Finish(t, HandleResult(h2, ErrorEnvelope("failure")), "returned")
        ELSE Goto(t, place, h2)

\* handle: "Get academic perspective if not primary"
HandleAcademics(t, outcome) ==
    /\ pc[t] = "handle_academics"
    /\ LET h == local[t]
       IN  IF IsComplex(h.query) /\ h.routing.specialist # "academics"
           THEN HandleAuxiliary(t, h, "academics_perspective", outcome, "handle_financial")
           ELSE /\ outcome = "ok"
                /\ Goto(t, "handle_financial", h)
    /\ UNCHANGED <<now, viewed, tally, monitorVars, sessVars, bankVars, fileVars, bank_lock, calls, completed,
                   forwarded, recorded, saves_started>>

\* handle: "Get financial perspective for program queries"
HandleFinancial(t, outcome) ==
    /\ pc[t] = "handle_financial"
    /\ LET h == local[t]
       IN  IF /\ IsComplex(h.query)
              /\ Contains(ProgramKeyword, Lower(h.query))
              /\ h.routing.specialist # "financial_aid"
           THEN HandleAuxiliary(t, h, "financial_perspective", outcome, "handle_record")
           ELSE /\ outcome = "ok"
                /\ Goto(t, "handle_record", h)
    /\ UNCHANGED <<now, viewed, tally, monitorVars, sessVars, bankVars, fileVars, bank_lock, calls, completed,
                   forwarded, recorded, saves_started>>

\* handle without its own record_interaction: the routing record alone
HandleRecord_skips(t) ==
    /\ pc[t] = "handle_record"
    /\ Goto(t, "handle_return", local[t])
    /\ UNCHANGED <<now, viewed, tally, monitorVars, sessVars, bankVars, fileVars, bank_lock, calls,
                   completed, forwarded, recorded, saves_started>>

\* handle: "Record successful multi-agent interaction", up to the get_session
\* of record_interaction
HandleRecord(t) ==
    /\ pc[t] = "handle_record"
    /\ LET h == local[t]
       IN  /\ active_sessions' = TouchSession(active_sessions, h.session_id, now)
           /\ IF h.session_id \in DOMAIN active_sessions
              THEN Goto(t, "record_update",
                        RecordLocals(h, SessionCopy(active_sessions'[h.session_id]),
                                     "multi_agent_query", "Processed", "handle_return"))
              ELSE Goto(t, "handle_return", h)
    /\ UNCHANGED <<now, viewed, tally, monitorVars, dict_heap, next_uuid, bankVars, fileVars, bank_lock, calls,
                   completed, forwarded, recorded, saves_started>>

\* handle: the envelope it returns
HandleReturn(t) ==
    /\ pc[t] = "handle_return"
    /\ Finish(t, HandleResult(local[t], SuccessEnvelope(local[t])), "returned")
    /\ tally' = Bump(tally, <<"handle_multi_agent_query", ToString(local[t].session_id)>>)
    /\ UNCHANGED <<now, viewed, monitorVars, sessVars, bankVars, fileVars, bank_lock, calls, completed,
                   forwarded, recorded, saves_started>>

\* record_interaction and create_session on concurrent threads
NextRecord ==
    \/ \E t \in Threads, student_id \in StudentInputs : CreateRegister(t, student_id)
    \/ \E t \in Threads : ContextProfile(t)
    \/ \E t \in Threads : ContextSummary(t)
    \/ \E t \in Threads, session_id \in SessionInputs, topic \in TopicInputs :
           UpdateSession(t, session_id, topic)
    \/ \E t \in Threads, session_id \in SessionInputs : RecordGet(t, session_id)
    \/ \E t \in Threads : RecordUpdate(t)
    \/ \E t \in Threads : RecordStore(t)
    \/ \E t \in Threads : StoreCheck(t)

Spec == Init /\ [][NextRecord]_vars

\* sessions created, read and swept while the clock advances
NextSweep ==
    \/ Tick
    \/ \E t \in Threads, student_id \in StudentInputs : CreateRegister(t, student_id)
    \/ \E t \in Threads : ContextProfile(t)
    \/ \E t \in Threads : ContextSummary(t)
    \/ \E t \in Threads, session_id \in SessionInputs : GetSession(t, session_id)
    \/ \E t \in Threads, max_age_hours \in AgeInputs : SweepCutoff(t, max_age_hours)
    \/ \E t \in Threads : SweepRemove(t)

SpecSweep == Init /\ [][NextSweep]_vars

\* callers that keep and change what a read gave them
NextAlias ==
    \/ Tick
    \/ \E t \in Threads, student_id \in StudentInputs : CreateRegister(t, student_id)
    \/ \E t \in Threads : ContextCall(t, "alice")
    \/ \E t \in Threads : ContextProfile(t)
    \/ \E t \in Threads : ContextSummary(t)
    \/ \E t \in Threads : GetProfile(t, "alice")
    \/ \E t \in Threads, session_id \in SessionInputs : GetSession(t, session_id)
    \/ \E t \in Threads : MutateSessionCopy(t)
    \/ \E t \in Threads : MutateAgentContext(t)
    \/ \E t \in Threads : MutateProfile(t)

SpecAlias == Init /\ [][NextAlias]_vars

\* store_interaction called many times for a student: the history at its cap
NextHistory ==
    \/ \E t \in Threads : StoreCall(t, "alice", MaxStores, "store_check")
    \/ \E t \in Threads :
           /\ DictGet(recorded, "bob", 0) < MaxOther
           /\ StoreCall(t, "bob", MaxStores, "store_check")
    \/ \E t \in Threads : StoreCheck(t)

SpecHistory == Init /\ [][NextHistory]_vars

\* the memory bank under concurrent callers, _save_profiles step by step
NextBank ==
    \/ \E t \in Threads, student_id \in {"alice", "bob"} :
           StoreCall(t, student_id, MaxBankStores, "save_check")
    \/ \E t \in Threads : GetProfile(t, "alice")
    \/ \E t \in Threads : SaveCheck(t)
    \/ \E t \in Threads : SaveAcquire(t)
    \/ \E t \in Threads : SaveOpenProfiles(t)
    \/ \E t \in Threads : SaveDumpProfiles(t)
    \/ \E t \in Threads : SaveOpenInteractions(t)
    \/ \E t \in Threads : SaveDumpInteractions(t)

SpecBank == Init /\ [][NextBank]_vars

Outcomes == {"ok", "fail"}
QuerySet == {QueryInputs[k] : k \in 1..Len(QueryInputs)}

\* the thread that runs handle_multi_agent_query
Handlers == {"t1"}

\* handle_multi_agent_query calls one after the other, with and without a
\* session id, and update_session calls from any thread
NextOrchestrator ==
    \/ \E t \in Handlers, query \in QuerySet : HandleCreate(t, query)
    \/ \E t \in Handlers, query \in QuerySet, session_id \in SessionInputs :
           HandleWith(t, query, session_id)
    \/ \E t \in Handlers : HandleGetSession(t)
    \/ \E t \in Handlers : ContextProfile(t)
    \/ \E t \in Handlers : ContextSummary(t)
    \/ \E t \in Handlers : HandleRoute(t)
    \/ \E t \in Handlers : RecordUpdate(t)
    \/ \E t \in Handlers : RecordStore(t)
    \/ \E t \in Handlers : StoreCheck(t)
    \/ \E t \in Handlers, outcome \in Outcomes : HandlePrimary(t, outcome)
    \/ \E t \in Handlers, outcome \in Outcomes : HandleAcademics(t, outcome)
    \/ \E t \in Handlers, outcome \in Outcomes : HandleFinancial(t, outcome)
    \/ \E t \in Handlers : HandleRecord(t)
    \/ \E t \in Handlers : HandleReturn(t)
    \/ \E t \in Threads, session_id \in SessionInputs, topic \in TopicInputs :
           UpdateSession(t, session_id, topic)

SpecOrchestrator == Init /\ [][NextOrchestrator]_vars

\* the metadata store_interaction is given: none ({} after `metadata or {}`),
\* a topic of None as record_interaction forwards it, and a topic
MetadataInputs == {EmptyDict, [topic |-> None], [topic |-> "admissions"]}

InterestInputs == {"robotics"}

\* the programs a student views; a program not viewed before is the next of
\* this list
ProgramInputs == <<"welding", "nursing", "machining", "culinary">>

\* store_interaction called by a request handler with the metadata given: its
\* locked block
StoreTopic(t, student_id, metadata) ==
    /\ pc[t] = "idle"
    /\ bank_lock = None
    /\ DictGet(recorded, student_id, 0) < MaxTopicStores
    /\ interaction_history' =
           store_interaction(interaction_history, student_id,
               Interaction(now, "query", "q", metadata))
    /\ recorded' = Bump(recorded, student_id)
    /\ counters' = increment_counter(counters, "interactions_stored")
    /\ Goto(t, "store_check", [op |-> "store_interaction", student_id |-> student_id])
    /\ UNCHANGED <<now, viewed, tally, monitorVars, sessVars, profiles, fileVars, bank_lock, calls, completed,
                   forwarded, saves_started>>

\* memory_bank.get_student_context called again and again for a student
ContextCallUpTo(t, student_id, limit) ==
    /\ pc[t] = "idle"
    /\ student_id \in DOMAIN profiles => profiles[student_id].interaction_count < limit
    /\ Goto(t, "context_profile", [op |-> "get_student_context", student_id |-> student_id])
    /\ UNCHANGED <<now, viewed, tally, monitorVars, sessVars, bankVars, fileVars, bank_lock, calls, completed,
                   forwarded, recorded, saves_started>>

\* profile.add_interest(interest) on the profile object of the bank
AddInterest(t, student_id, interest) ==
    /\ pc[t] = "idle"
    /\ student_id \in DOMAIN profiles
    /\ profiles' = [profiles EXCEPT ![student_id] = add_interest(@, interest)]
    /\ UNCHANGED <<now, viewed, tally, monitorVars, sessVars, interaction_history, counters, fileVars,
                   bank_lock, pc, local, calls, completed, forwarded, recorded, raised,
                   saves_started>>

\* profile.add_program_view(program) on the profile object of the bank
AddProgramView(t, student_id, program, limit) ==
    /\ pc[t] = "idle"
    /\ student_id \in DOMAIN profiles
    /\ Len(DictGet(viewed, student_id, << >>)) < limit
    /\ \E k \in 1..Min(Len(ProgramInputs), Len(profiles[student_id].programs_viewed) + 1) :
           program = ProgramInputs[k]
    /\ profiles' = [profiles EXCEPT ![student_id] = add_program_view(@, program)]
    /\ viewed' = IF student_id \in DOMAIN viewed
                 THEN [viewed EXCEPT ![student_id] = Append(@, program)]
                 ELSE viewed @@ (student_id :> <<program>>)
    /\ UNCHANGED <<now, sessVars, interaction_history, counters, fileVars, bank_lock,
                   monitorVars, pc, local, calls, completed, forwarded, recorded, raised,
                   saves_started, tally>>

ProgramSet == {ProgramInputs[k] : k \in 1..Len(ProgramInputs)}

\* the context summary of a student whose interests, program views and
\* interactions grow
NextSummary ==
    \/ \E t \in Handlers : ContextCallUpTo(t, "alice", MaxContexts)
    \/ \E t \in Handlers : ContextProfile(t)
    \/ \E t \in Handlers : ContextSummary(t)
    \/ \E t \in Handlers, interest \in InterestInputs : AddInterest(t, "alice", interest)
    \/ \E t \in Handlers, program \in ProgramSet :
           AddProgramView(t, "alice", program, MaxSummaryViews)
    \/ \E t \in Handlers, metadata \in MetadataInputs : StoreTopic(t, "alice", metadata)
    \/ \E t \in Handlers : StoreCheck(t)

SpecSummary == Init /\ [][NextSummary]_vars

\* a student views programs, some of them again, between context reads
NextViews ==
    \/ \E t \in Handlers : ContextCallUpTo(t, "alice", MaxContexts)
    \/ \E t \in Handlers : ContextProfile(t)
    \/ \E t \in Handlers : ContextSummary(t)
    \/ \E t \in Handlers, program \in ProgramSet :
           AddProgramView(t, "alice", program, MaxViews)

SpecViews == Init /\ [][NextViews]_vars

\* profile.add_question(question) on the profile object of the bank; the
\* question's text is its ordinal among those asked
AddQuestion(t, student_id, limit) ==
    /\ pc[t] = "idle"
    /\ student_id \in DOMAIN profiles
    /\ DictGet(tally, <<"add_question", student_id>>, 0) < limit
    /\ profiles' = [profiles EXCEPT ![student_id] =
           add_question(@, "question "
                           \o ToString(DictGet(tally, <<"add_question", student_id>>, 0) + 1),
                        "general", now)]
    /\ tally' = Bump(tally, <<"add_question", student_id>>)
    /\ UNCHANGED <<now, viewed, monitorVars, sessVars, interaction_history, counters, fileVars,
                   bank_lock, pc, local, calls, completed, forwarded, recorded, raised,
                   saves_started>>

\* the fields a caller gives update_session: a topic, or a last_activity of
\* its own
UpdateInputs == {[current_topic |-> "admissions"], [last_activity |-> 0]}

\* update_session called by a request handler with the fields given
UpdateFields(t, session_id, updates) ==
    /\ pc[t] = "idle"
    /\ active_sessions' = update_session(active_sessions, session_id, updates, now)
    /\ Finish(t, [op |-> "update_session", session_id |-> session_id,
                  updates |-> updates], "returned")
    /\ UNCHANGED <<now, viewed, tally, monitorVars, dict_heap, next_uuid, bankVars, fileVars, bank_lock,
                   calls, completed, forwarded, recorded, saves_started>>

\* every operation on the session table while the clock advances: one thread
\* creates, reads and records, the other sweeps, and both update
NextActivity ==
    \/ Tick
    \/ \E t \in Handlers : CreateRegister(t, "alice")
    \/ \E t \in Handlers : ContextProfile(t)
    \/ \E t \in Handlers : ContextSummary(t)
    \/ \E t \in Handlers, session_id \in SessionInputs : GetSession(t, session_id)
    \/ \E t \in Threads, session_id \in SessionInputs, updates \in UpdateInputs :
           UpdateFields(t, session_id, updates)
    \/ \E t \in Handlers, session_id \in SessionInputs :
           /\ calls < MaxRecords
           /\ RecordGet(t, session_id)
    \/ \E t \in Handlers : RecordUpdate(t)
    \/ \E t \in Handlers : RecordStore(t)
    \/ \E t \in Handlers : StoreCheck(t)
    \/ \E t \in Threads \ Handlers, max_age_hours \in AgeInputs :
           SweepCutoff(t, max_age_hours)
    \/ \E t \in Threads \ Handlers : SweepRemove(t)

SpecActivity == Init /\ [][NextActivity]_vars

\* one caller creates sessions, with and without a student id, reads them and
\* records interactions
NextCreateGet ==
    \/ Tick
    \/ \E t \in Handlers, student_id \in StudentInputs : CreateRegister(t, student_id)
    \/ \E t \in Handlers : ContextProfile(t)
    \/ \E t \in Handlers : ContextSummary(t)
    \/ \E t \in Handlers, session_id \in SessionInputs : GetSession(t, session_id)
    \/ \E t \in Handlers, session_id \in SessionInputs : RecordGet(t, session_id)
    \/ \E t \in Handlers : RecordUpdate(t)
    \/ \E t \in Handlers : RecordStore(t)
    \/ \E t \in Handlers : StoreCheck(t)

SpecCreateGet == Init /\ [][NextCreateGet]_vars

\* a thread sweeps while the other creates and reads sessions and both update
\* them
NextConcurrentSweep ==
    \/ Tick
    \/ \E t \in Handlers : CreateRegister(t, "alice")
    \/ \E t \in Handlers : ContextProfile(t)
    \/ \E t \in Handlers : ContextSummary(t)
    \/ \E t \in Handlers, session_id \in SessionInputs : GetSession(t, session_id)
    \/ \E t \in Threads, session_id \in SessionInputs, updates \in UpdateInputs :
           UpdateFields(t, session_id, updates)
    \/ \E t \in Threads \ Handlers, max_age_hours \in AgeInputs :
           SweepCutoff(t, max_age_hours)
    \/ \E t \in Threads \ Handlers : SweepRemove(t)

SpecConcurrentSweep == Init /\ [][NextConcurrentSweep]_vars

\* profile.add_recommendation(recommendation, context) on the profile object
\* of the bank; the recommendation's text is its ordinal among those given
AddRecommendation(t, student_id, limit) ==
    /\ pc[t] = "idle"
    /\ student_id \in DOMAIN profiles
    /\ DictGet(tally, <<"add_recommendation", student_id>>, 0) < limit
    /\ profiles' = [profiles EXCEPT ![student_id] =
           add_recommendation(@, "recommendation "
               \o ToString(DictGet(tally, <<"add_recommendation", student_id>>, 0) + 1),
               "general", now)]
    /\ tally' = Bump(tally, <<"add_recommendation", student_id>>)
    /\ UNCHANGED <<now, viewed, monitorVars, sessVars, interaction_history, counters,
                   fileVars, bank_lock, pc, local, calls, completed, forwarded, recorded,
                   raised, saves_started>>

\* a caller adds questions and recommendations to a student's profile, past
\* the caps of both lists
NextCaps ==
    \/ \E t \in Handlers : GetProfile(t, "alice")
    \/ \E t \in Handlers : AddQuestion(t, "alice", MaxAsked)
    \/ \E t \in Handlers : AddRecommendation(t, "alice", MaxRecommended)

SpecCaps == Init /\ [][NextCaps]_vars

\* a thread sweeps while the other creates sessions and records interactions
NextRetention ==
    \/ Tick
    \/ \E t \in Handlers : CreateRegister(t, "alice")
    \/ \E t \in Handlers : ContextProfile(t)
    \/ \E t \in Handlers : ContextSummary(t)
    \/ \E t \in Handlers, session_id \in SessionInputs :
           /\ calls < MaxRecords
           /\ RecordGet(t, session_id)
    \/ \E t \in Handlers : RecordUpdate(t)
    \/ \E t \in Handlers : RecordStore(t)
    \/ \E t \in Handlers : StoreCheck(t)
    \/ \E t \in Threads \ Handlers, max_age_hours \in AgeInputs :
           SweepCutoff(t, max_age_hours)
    \/ \E t \in Threads \ Handlers : SweepRemove(t)

SpecRetention == Init /\ [][NextRetention]_vars

\* the memory bank under concurrent callers, with snapshot writes that fail
NextSaveFail ==
    \/ \E t \in Threads : StoreCall(t, "alice", MaxBankStores, "save_check")
    \/ \E t \in Threads : GetProfile(t, "alice")
    \/ \E t \in Threads : SaveCheck(t)
    \/ \E t \in Threads : SaveAcquire(t)
    \/ \E t \in Threads : SaveOpenProfiles(t)
    \/ \E t \in Threads : SaveDumpProfiles(t)
    \/ \E t \in Threads : SaveOpenInteractions(t)
    \/ \E t \in Threads : SaveDumpInteractions(t)
    \/ \E t \in Threads : SaveFail(t)

SpecSaveFail == Init /\ [][NextSaveFail]_vars

\* get_or_create_profile called from concurrent threads, for itself and by
\* get_student_context, while the clock advances
NextProfiles ==
    \/ Tick
    \/ \E t \in Threads, student_id \in {"alice", "bob"} :
           GetProfileUpTo(t, student_id, MaxProfileCalls)
    \/ \E t \in Threads, student_id \in {"alice", "bob"} :
           ContextCallUpTo(t, student_id, MaxProfileCalls)
    \/ \E t \in Threads : ContextProfile(t)
    \/ \E t \in Threads : ContextSummary(t)

SpecProfiles == Init /\ [][NextProfiles]_vars

\* _save_profiles called for itself
SaveCall(t) ==
    /\ pc[t] = "idle"
    /\ saves_started < MaxSaves
    /\ saves_started' = saves_started + 1
    /\ Goto(t, "save_acquire", [op |-> "_save_profiles"])
    /\ UNCHANGED <<now, viewed, tally, monitorVars, sessVars, bankVars, fileVars, bank_lock, calls, completed,
                   forwarded, recorded>>

\* BatesMemoryBank() made anew over the same storage path: __init__ ends with
\* _load_profiles, and the caller keeps the new bank
LoadFresh(t) ==
    /\ pc[t] = "idle"
    /\ Finish(t, [op |-> "BatesMemoryBank",
                  bank |-> load_profiles(profiles_file, interactions_file)], "returned")
    /\ UNCHANGED <<now, viewed, tally, monitorVars, sessVars, bankVars, fileVars, bank_lock, calls, completed,
                   forwarded, recorded, saves_started>>

\* the files of the storage path
SnapshotFiles == {"profiles.json", "interactions.json"}

\* a snapshot file is deleted from the storage path while no save is running:
\* `exists()` is false for it at the next start
RemoveSnapshot(name) ==
    /\ \A t \in Threads : pc[t] \notin SavePlaces
    /\ IF name = "profiles.json"
       THEN /\ profiles_file.status = "complete"
            /\ profiles_file' = AbsentFile
            /\ UNCHANGED interactions_file
       ELSE /\ interactions_file.status = "complete"
            /\ interactions_file' = AbsentFile
            /\ UNCHANGED profiles_file
    /\ UNCHANGED <<now, sessVars, bankVars, bank_lock, monitorVars, pc, local, ghostVars>>

\* one caller fills the bank and writes snapshots; a write fails or a file is
\* deleted, and new banks are made over what is left
NextColdStart ==
    \/ \E t \in Handlers : GetProfile(t, "alice")
    \/ \E t \in Handlers : AddQuestion(t, "alice", MaxQuestions)
    \/ \E t \in Handlers :
           /\ DictGet(recorded, "alice", 0) < MaxPersistStores
           /\ StoreTopic(t, "alice", [topic |-> None])
    \/ \E t \in Handlers : StoreCheck(t)
    \/ \E t \in Handlers : SaveCall(t)
    \/ \E t \in Handlers : SaveAcquire(t)
    \/ \E t \in Handlers : SaveOpenProfiles(t)
    \/ \E t \in Handlers : SaveDumpProfiles(t)
    \/ \E t \in Handlers : SaveOpenInteractions(t)
    \/ \E t \in Handlers : SaveDumpInteractions(t)
    \/ \E t \in Handlers : SaveFail(t)
    \/ \E name \in SnapshotFiles : RemoveSnapshot(name)
    \/ \E t \in Handlers : LoadFresh(t)

SpecColdStart == Init /\ [][NextColdStart]_vars

\* one caller fills the bank, writes snapshots and loads them into new banks
NextPersist ==
    \/ Tick
    \/ \E t \in Handlers : GetProfile(t, "alice")
    \/ \E t \in Handlers : AddQuestion(t, "alice", MaxQuestions)
    \/ \E t \in Handlers, program \in ProgramSet :
           AddProgramView(t, "alice", program, MaxPersistViews)
    \/ \E t \in Handlers :
           /\ DictGet(recorded, "alice", 0) < MaxPersistStores
           /\ StoreTopic(t, "alice", [topic |-> None])
    \/ \E t \in Handlers : StoreCheck(t)
    \/ \E t \in Handlers : SaveCall(t)
    \/ \E t \in Handlers : SaveAcquire(t)
    \/ \E t \in Handlers : SaveOpenProfiles(t)
    \/ \E t \in Handlers : SaveDumpProfiles(t)
    \/ \E t \in Handlers : SaveOpenInteractions(t)
    \/ \E t \in Handlers : SaveDumpInteractions(t)
    \/ \E t \in Handlers : LoadFresh(t)

SpecPersist == Init /\ [][NextPersist]_vars

\* the words the router's queries are made of: "Apply", "program", "TUITION",
\* "latest" (holds "test"), "coffee" (holds "fee")
RouterWords ==
    { <<"A", "p", "p", "l", "y">>,
      <<"p", "r", "o", "g", "r", "a", "m">>,
      <<"T", "U", "I", "T", "I", "O", "N">>,
      <<"l", "a", "t", "e", "s", "t">>,
      <<"c", "o", "f", "f", "e", "e">> }

WordSeqs == UNION {[1..n -> RouterWords] : n \in 0..MaxWords}

RECURSIVE QueryOf(_)
\* the words with one space between them
QueryOf(ws) ==
    IF Len(ws) = 0 THEN << >>
    ELSE IF Len(ws) = 1 THEN ws[1]
    ELSE ws[1] \o <<" ">> \o QueryOf(Tail(ws))

\* route_to_specialist(query) called without a session id: `if session_id`
\* is false and nothing is recorded
RouteCall(t, query) ==
    /\ pc[t] = "idle"
    /\ Finish(t, [op |-> "route_to_specialist", query |-> query,
                  routing |-> route_to_specialist(query)], "returned")
    /\ UNCHANGED <<now, viewed, tally, monitorVars, sessVars, bankVars, fileVars, bank_lock, calls, completed,
                   forwarded, recorded, saves_started>>

\* the router called with one query after the other
NextRouter ==
    \/ \E t \in Handlers, ws \in WordSeqs : RouteCall(t, QueryOf(ws))
    \/ \E t \in Handlers, query \in QuerySet : RouteCall(t, query)

SpecRouter == Init /\ [][NextRouter]_vars

-----------------------------------------------------------------------------
(* The locks the operations take.  An operation is the sequence of the lock *)
(* events it makes, in the order of its code; what it does to the data      *)
(* between them is in the steps above.                                      *)

Locks == {"session", "bank", "metrics", "tracer"}

\* the holder of a `_lock`
Holder(l) == IF l = "bank" THEN bank_lock ELSE lock_holder[l]

Ev(kind, what) == <<kind, what>>

\* a `with self._lock` block that ends without giving the lock back
Locked_keepsLock(l, inner) == <<Ev("acquire", l)>> \o inner

\* `with self._lock:` around the events of its body (a threading.Lock: the
\* thread waits until it is free, also when the holder is the thread itself)
Locked(l, inner) == <<Ev("acquire", l)>> \o inner \o <<Ev("release", l)>>

\* events made only when the code's condition holds
Opt(condition, events) == IF condition THEN events ELSE << >>

\* BatesMetrics.increment_counter / record_timer / get_metrics
increment_counter_locks == Locked("metrics", << >>)
record_timer_locks == Locked("metrics", << >>)
get_metrics_locks == Locked("metrics", << >>)

\* BatesTracer.start_trace, end_trace (`if self.current_trace:` is read
\* before the lock is taken; when it is not set the three events of the
\* locked block are skipped) and get_traces
start_trace_locks == Locked("tracer", <<Ev("current_trace", TRUE)>>)
end_trace_locks ==
    <<Ev("if_current_trace", 3)>> \o Locked("tracer", <<Ev("current_trace", FALSE)>>)
get_traces_locks == Locked("tracer", << >>)

\* @monitor_performance: PerformanceMonitor.__enter__, the function, __exit__
monitor_performance_locks(body) ==
    start_trace_locks \o body \o record_timer_locks \o end_trace_locks
        \o increment_counter_locks

\* get_or_create_profile; `new`: the student has no profile yet
get_or_create_profile_locks(new) ==
    monitor_performance_locks(Locked("bank", Opt(new, increment_counter_locks)))

\* _save_profiles: both files are written inside the locked block
save_profiles_locks ==
    Locked("bank", <<Ev("io", "profiles.json"), Ev("io", "interactions.json")>>)

\* store_interaction; `save`: the counter read after the block is a multiple of 10
store_interaction_locks(save) ==
    monitor_performance_locks(
        Locked("bank", increment_counter_locks) \o Opt(save, save_profiles_locks))

\* get_student_context
get_student_context_locks(new) == get_or_create_profile_locks(new)

\* create_session with get_student_context called inside its locked block
create_session_locks_nested(new) ==
    monitor_performance_locks(
        Locked("session", increment_counter_locks \o get_student_context_locks(new)))

\* create_session
create_session_locks(new) ==
    monitor_performance_locks(
        Locked("session", increment_counter_locks) \o get_student_context_locks(new))

\* get_session
get_session_locks == monitor_performance_locks(Locked("session", << >>))

\* update_session; `found`: the session is in the table
update_session_locks(found) ==
    monitor_performance_locks(Locked("session", Opt(found, increment_counter_locks)))

\* record_interaction; `found`: get_session returned the session, `still`: it
\* is in the table at update_session
record_interaction_locks(found, still, save) ==
    get_session_locks
        \o Opt(found, update_session_locks(still) \o store_interaction_locks(save))

\* cleanup_expired_sessions; `expired`: a session is removed and counted
cleanup_expired_sessions_locks(expired) ==
    Locked("session", Opt(expired, increment_counter_locks))

\* get_agent_metrics
get_agent_metrics_locks == monitor_performance_locks(get_metrics_locks \o get_traces_locks)

\* the operations a thread may run, each with the lock events of every
\* outcome of its conditions
LockScripts ==
    {[op |-> "create_session", script |-> create_session_locks(new)] :
         new \in BOOLEAN}
    \cup {[op |-> "get_session", script |-> get_session_locks]}
    \cup {[op |-> "update_session", script |-> update_session_locks(found)] :
              found \in BOOLEAN}
    \cup {[op |-> "record_interaction",
           script |-> record_interaction_locks(f[1], f[2], f[3])] :
              f \in BOOLEAN \X BOOLEAN \X BOOLEAN}
    \cup {[op |-> "cleanup_expired_sessions",
           script |-> cleanup_expired_sessions_locks(expired)] : expired \in BOOLEAN}
    \cup {[op |-> "get_or_create_profile", script |-> get_or_create_profile_locks(new)] :
              new \in BOOLEAN}
    \cup {[op |-> "store_interaction", script |-> store_interaction_locks(save)] :
              save \in BOOLEAN}
    \cup {[op |-> "_save_profiles", script |-> save_profiles_locks]}
    \cup {[op |-> "get_agent_metrics", script |-> get_agent_metrics_locks]}

\* the event thread t is at
NextEvent(t) == local[t].script[local[t].at]

\* thread t goes on to event k of its operation, or returns at its end
Advance(t, k) ==
    IF k > Len(local[t].script)
    THEN Finish(t, [op |-> local[t].op, done |-> TRUE], "returned")
    ELSE Goto(t, "locks", [local[t] EXCEPT !.at = k])

\* a thread starts an operation
LockBegin(t, s) ==
    /\ pc[t] = "idle"
    /\ Goto(t, "locks", [op |-> s.op, script |-> s.script, at |-> 1])
    /\ UNCHANGED <<now, sessVars, bankVars, fileVars, bank_lock, monitorVars, calls,
                   completed, forwarded, recorded, saves_started, viewed, tally>>

\* `with self._lock:` entered: the thread waits while the lock is held
LockAcquire(t) ==
    /\ pc[t] = "locks"
    /\ NextEvent(t)[1] = "acquire"
    /\ Holder(NextEvent(t)[2]) = None
    /\ IF NextEvent(t)[2] = "bank"
       THEN bank_lock' = t /\ UNCHANGED lock_holder
       ELSE lock_holder' = [lock_holder EXCEPT ![NextEvent(t)[2]] = t]
            /\ UNCHANGED bank_lock
    /\ Advance(t, local[t].at + 1)
    /\ UNCHANGED <<now, sessVars, bankVars, fileVars, current_trace, traces, calls,
                   completed, forwarded, recorded, saves_started, viewed, tally>>

\* the end of a `with self._lock:` block
LockRelease(t) ==
    /\ pc[t] = "locks"
    /\ NextEvent(t)[1] = "release"
    /\ IF NextEvent(t)[2] = "bank"
       THEN bank_lock' = None /\ UNCHANGED lock_holder
       ELSE lock_holder' = [lock_holder EXCEPT ![NextEvent(t)[2]] = None]
            /\ UNCHANGED bank_lock
    /\ Advance(t, local[t].at + 1)
    /\ UNCHANGED <<now, sessVars, bankVars, fileVars, current_trace, traces, calls,
                   completed, forwarded, recorded, saves_started, viewed, tally>>

\* start_trace sets self.current_trace, end_trace clears it (the list of
\* traces is followed in TraceRecord)
TraceSet(t) ==
    /\ pc[t] = "locks"
    /\ NextEvent(t)[1] = "current_trace"
    /\ current_trace' = NextEvent(t)[2]
    /\ Advance(t, local[t].at + 1)
    /\ UNCHANGED <<now, sessVars, bankVars, fileVars, bank_lock, lock_holder, traces, calls,
                   completed, forwarded, recorded, saves_started, viewed, tally>>

\* end_trace: `if self.current_trace:`
TraceTest(t) ==
    /\ pc[t] = "locks"
    /\ NextEvent(t)[1] = "if_current_trace"
    /\ Advance(t, IF current_trace THEN local[t].at + 1
                  ELSE local[t].at + 1 + NextEvent(t)[2])
    /\ UNCHANGED <<now, sessVars, bankVars, fileVars, bank_lock, monitorVars, calls,
                   completed, forwarded, recorded, saves_started, viewed, tally>>

\* _save_profiles: a snapshot file is opened and written, to its end
FileWrite(t) ==
    /\ pc[t] = "locks"
    /\ NextEvent(t)[1] = "io"
    /\ Advance(t, local[t].at + 1)
    /\ UNCHANGED <<now, sessVars, bankVars, fileVars, bank_lock, monitorVars, calls,
                   completed, forwarded, recorded, saves_started, viewed, tally>>

\* a step of the operation thread t runs
LockStep(t) ==
    LockAcquire(t) \/ LockRelease(t) \/ TraceSet(t) \/ TraceTest(t) \/ FileWrite(t)

\* threads run session, memory bank and monitored operations concurrently
NextLocks ==
    \/ \E t \in Threads, s \in LockScripts : LockBegin(t, s)
    \/ \E t \in Threads : LockAcquire(t)
    \/ \E t \in Threads : LockRelease(t)
    \/ \E t \in Threads : TraceSet(t)
    \/ \E t \in Threads : TraceTest(t)
    \/ \E t \in Threads : FileWrite(t)

SpecLocks == Init /\ [][NextLocks]_vars

\* the same under fair scheduling: a thread that can take a step again and
\* again takes one
SpecLocksFair == SpecLocks /\ \A t \in Threads : SF_vars(LockStep(t))

-----------------------------------------------------------------------------
(* Properties *)

AllIdle == \A t \in Threads : pc[t] = "idle"

\* C2: once the record_interaction calls on a session have all returned, the
\* session's interaction_count is the number of those calls, under every
\* interleaving of the callers (no increment is lost).
C2_NoLostIncrement ==
    AllIdle => \A sid \in DOMAIN active_sessions :
                   active_sessions[sid].interaction_count = completed[sid]

\* C3: the topic record_interaction forwards to the memory bank is the
\* session's current_topic when one is set and "general" when it is None.
C3_TopicOrGeneral ==
    \A p \in forwarded : p[2] = (IF p[1] = None THEN "general" ELSE p[1])

\* C4: create_session never raises, whatever the memory bank holds for the
\* student, so no session is registered without its id being returned.
C4_CreateSessionNeverRaises == "create_session" \notin raised

\* the session table with each agent_context reference followed
SessionView ==
    [sid \in DOMAIN active_sessions |->
        [active_sessions[sid] EXCEPT !.agent_context = dict_heap[@]]]

\* C5 (as amended): a sweep with ttl = 0 removes exactly the sessions whose
\* last_activity is strictly before the sweep instant; a session touched at
\* the sweep instant itself (the clock has not advanced) is kept, unchanged.
C5_SweepZeroStrict ==
    [][\A t \in Threads :
          (SweepRemove(t) /\ local[t].max_age_hours = 0) =>
              \A sid \in DOMAIN active_sessions :
                  IF active_sessions[sid].last_activity < local[t].cutoff_time
                  THEN sid \notin DOMAIN active_sessions'
                  ELSE /\ sid \in DOMAIN active_sessions'
                       /\ active_sessions'[sid] = active_sessions[sid]]_vars

\* C5 as claimed: a sweep with ttl = 0 removes every session touched up to the
\* sweep instant, also when last_activity equals that instant.
C5_SweepZeroRemovesCreated ==
    [][\A t \in Threads :
          (SweepRemove(t) /\ local[t].max_age_hours = 0) =>
              \A sid \in DOMAIN active_sessions :
                  active_sessions[sid].last_activity <= local[t].cutoff_time
                      => sid \notin DOMAIN active_sessions']_vars

\* a sweep with ttl = 0 has returned and removed a session
C5_Witness ==
    \E t \in Threads :
        /\ pc[t] = "idle"
        /\ local[t].op = "cleanup_expired_sessions"
        /\ local[t].max_age_hours = 0
        /\ local[t].expired_sessions # {}

\* C8: what a caller does to the value a read returned, nested values
\* included, leaves the registry's and the bank's state as it was.
C8_ReadsReturnCopies ==
    [][CallerMutates =>
          /\ SessionView' = SessionView
          /\ profiles' = profiles
          /\ interaction_history' = interaction_history]_vars

\* C1: for every student the history holds at most 100 entries and is the
\* most recent min(n, 100) of the n interactions recorded for the student, in
\* the order they were recorded.
C1_HistoryIsMostRecent ==
    \A s \in DOMAIN interaction_history :
        LET h == interaction_history[s]
            n == DictGet(recorded, s, 0)
        IN  /\ Len(h) = Min(n, HistoryCap)
            /\ \A k \in 1..Len(h) : h[k].content = n - Len(h) + k

\* more interactions than the cap have been recorded for a student
C1_Witness ==
    \E s \in DOMAIN interaction_history : DictGet(recorded, s, 0) > HistoryCap

\* C6: when every store_interaction call has returned, one _save_profiles run
\* has been started for each 10th interaction stored, no more and no fewer.
C6_OneSavePerTenth ==
    AllIdle => saves_started = CounterGet(counters, "interactions_stored") \div SaveEvery

\* C7: neither snapshot file is ever partly written: a reader, or a crash at
\* any step, finds the complete previous snapshot or the complete new one.
C7_SnapshotNeverPartial ==
    /\ profiles_file.status # "partial"
    /\ interactions_file.status # "partial"

\* a handle_multi_agent_query call that has returned its envelope
Handled(t) == pc[t] = "idle" /\ local[t].op = "handle_multi_agent_query"

AuxiliaryKeys == {"academics_perspective", "financial_perspective"}

\* the primary run succeeded and an auxiliary run failed
PrimaryOkAuxiliaryFailed(t) ==
    /\ Handled(t)
    /\ DictGet(local[t].invoked, "primary", "none") = "ok"
    /\ \E key \in AuxiliaryKeys : DictGet(local[t].invoked, key, "none") = "fail"

\* C9: when an auxiliary specialist fails and the primary succeeded, the
\* envelope has status success and the primary's response under its key.
C9_AuxiliaryFailureIsolated ==
    \A t \in Threads :
        PrimaryOkAuxiliaryFailed(t) =>
            LET e == local[t].envelope
            IN  /\ e.status = "success"
                /\ e.primary_specialist \in DOMAIN e.responses
                /\ e.responses[e.primary_specialist] = "response"

\* a call returned after its primary run succeeded and an auxiliary run failed
C9_Witness == \E t \in Threads : PrimaryOkAuxiliaryFailed(t)

\* C10: a failed auxiliary run leaves an error marker under the auxiliary
\* specialist's own key in the envelope's responses.
C10_AuxiliaryFailureInline ==
    \A t \in Threads :
        (Handled(t) /\ local[t].envelope.status = "success") =>
            \A key \in AuxiliaryKeys :
                DictGet(local[t].invoked, key, "none") = "fail" =>
                    /\ key \in DOMAIN local[t].envelope.responses
                    /\ local[t].envelope.responses[key] = "Error: failure"

\* a call returned its envelope after its primary specialist's run failed
PrimaryFailed(t) ==
    /\ Handled(t)
    /\ DictGet(local[t].invoked, "primary", "none") = "fail"

\* the last interaction stored for the student of session sid
LastStored(sid) ==
    LET h == DictGet(interaction_history, active_sessions[sid].student_id, << >>)
    IN  IF Len(h) = 0 THEN [type |-> "none", content |-> << >>] ELSE h[Len(h)]

\* C11: when the primary specialist's run fails, handle still returns the
\* success envelope with an error string under the primary specialist's key,
\* the interaction is recorded for the session's student, and the auxiliary
\* specialists a complex query calls for are still run.
C11_PrimaryFailureInline ==
    \A t \in Threads :
        PrimaryFailed(t) =>
            LET e == local[t].envelope
                q == local[t].query
            IN  /\ e.status = "success"
                /\ e.primary_specialist \in DOMAIN e.responses
                /\ e.responses[e.primary_specialist] = "Error: failure"
                /\ LastStored(e.session_id).type = "multi_agent_query"
                /\ LastStored(e.session_id).content = q
                /\ (IsComplex(q) /\ e.primary_specialist # "academics")
                       => "academics_perspective" \in DOMAIN local[t].invoked
                /\ (IsComplex(q) /\ Contains(ProgramKeyword, Lower(q))
                                 /\ e.primary_specialist # "financial_aid")
                       => "financial_perspective" \in DOMAIN local[t].invoked

\* a call returned after its primary run failed and an auxiliary run was made
C11_Witness ==
    \E t \in Threads :
        /\ PrimaryFailed(t)
        /\ \E key \in AuxiliaryKeys : key \in DOMAIN local[t].invoked

\* the vocabularies of which a keyword is a substring of the lowercased query
Matched(query) ==
    {c \in {"admissions", "academics", "financial_aid"} :
        AnyKeyword(CASE c = "admissions" -> AdmissionsKeywords
                     [] c = "academics" -> AcademicsKeywords
                     [] OTHER -> FinancialAidKeywords, Lower(query))}

\* the reference classifier: the first matched vocabulary in the order
\* admissions, academics, financial_aid, and general when none matches
ReferenceSpecialist(query) ==
    CASE "admissions" \in Matched(query) -> "admissions"
      [] "admissions" \notin Matched(query) /\ "academics" \in Matched(query) -> "academics"
      [] Matched(query) = {"financial_aid"} -> "financial_aid"
      [] Matched(query) = {} -> "general"

\* a route_to_specialist call that has returned
Routed(t) == pc[t] = "idle" /\ local[t].op = "route_to_specialist"

\* C12: for every query the routing decision is the reference classifier's,
\* the confidence is high exactly when the specialist is not general, and
\* "apply for financial aid program" (in any letter case) routes to admissions.
C12_RoutingIsReference ==
    \A t \in Threads :
        Routed(t) =>
            LET r == local[t].routing
                q == local[t].query
            IN  /\ r.status = "success"
                /\ r.specialist = ReferenceSpecialist(q)
                /\ r.routing_confidence = "high" <=> r.specialist # "general"
                /\ r.routing_confidence \in {"high", "low"}
                /\ Lower(q) = Lower(QueryInputs[1]) => r.specialist = "admissions"

\* the router has answered a query that matches all three vocabularies
C12_Witness ==
    \E t \in Threads :
        /\ Routed(t)
        /\ Cardinality(Matched(local[t].query)) = 3

\* get_student_context called for itself takes its last step
ContextReturns(t) == ContextSummary(t) /\ local[t].op = "get_student_context"

\* a get_student_context call that has returned its dict
ContextReturned(t) ==
    /\ pc[t] = "idle"
    /\ local[t].op = "get_student_context"
    /\ "context_summary" \in DOMAIN local[t]

EndsWith(text, suffix) ==
    /\ Len(text) >= Len(suffix)
    /\ SubSeq(text, Len(text) - Len(suffix) + 1, Len(text)) = suffix

\* the topic an interaction contributes: its own, "general" when it has none
TopicOrGeneral(i) ==
    IF "topic" \in DOMAIN i.metadata /\ i.metadata.topic # None
    THEN i.metadata.topic ELSE "general"

\* C13: get_student_context returns a summary in which each of the up to 3
\* most recent interactions contributes its topic, and "general" when its
\* topic is absent or None.
C13_TopicsOrGeneral ==
    [][\A t \in Threads :
          ContextReturns(t) =>
              LET h == DictGet(interaction_history, local[t].student_id, << >>)
                  recent == LastN(h, 3)
                  topics == [k \in 1..Len(recent) |-> TopicOrGeneral(recent[k])]
              IN  Len(h) > 0 =>
                      /\ "context_summary" \in DOMAIN local'[t]
                      /\ EndsWith(local'[t].context_summary,
                                  "Recent topics: " \o Join(topics, ", "))]_vars

\* the distinct programs of a view log that were viewed last, n at most
RecentPrograms(log, n) ==
    LET last(p) == CHOOSE k \in 1..Len(log) :
                       log[k] = p /\ \A j \in (k + 1)..Len(log) : log[j] # p
        seen == {log[k] : k \in 1..Len(log)}
    IN  {p \in seen : Cardinality({q \in seen : last(q) > last(p)}) < n}

Orderings(S) ==
    {o \in [1..Cardinality(S) -> S] : \A i, j \in 1..Cardinality(S) : o[i] = o[j] => i = j}

\* C14: the programs the summary lists are the (up to) 3 programs the student
\* viewed most recently, also when a program viewed before is viewed again.
C14_ProgramsMostRecent ==
    [][\A t \in Threads :
          ContextReturns(t) =>
              LET s == local[t].student_id
                  expected == RecentPrograms(DictGet(viewed, s, << >>), 3)
              IN  (/\ expected # {}
                   /\ Len(profiles[s].interests) = 0
                   /\ Len(DictGet(interaction_history, s, << >>)) = 0) =>
                      /\ "context_summary" \in DOMAIN local'[t]
                      /\ \E o \in Orderings(expected) :
                             local'[t].context_summary
                                 = "Programs viewed: " \o Join(o, ", ")]_vars

\* C15: for a student with no interests, no programs viewed and no recorded
\* interactions the summary is exactly "New student interaction", and a
\* summary is that literal only when all three are empty.
C15_NewStudentLiteral ==
    [][\A t \in Threads :
          ContextReturns(t) =>
              LET s == local[t].student_id
                  no_signal == /\ Len(profiles[s].interests) = 0
                               /\ Len(profiles[s].programs_viewed) = 0
                               /\ Len(DictGet(interaction_history, s, << >>)) = 0
              IN  /\ no_signal =>
                         /\ "context_summary" \in DOMAIN local'[t]
                         /\ local'[t].context_summary = "New student interaction"
                  /\ ("context_summary" \in DOMAIN local'[t]
                         /\ local'[t].context_summary = "New student interaction")
                         => no_signal]_vars

\* get_student_context has returned the literal to a student seen for the
\* first time
C15_Witness ==
    \E t \in Threads :
        /\ ContextReturned(t)
        /\ local[t].context_summary = "New student interaction"
        /\ profiles[local[t].profile_ref].interaction_count = 1

\* C16: a snapshot written by _save_profiles and loaded into a new
\* BatesMemoryBank gives back every field of every profile, the lists in their
\* order, and every interaction history, as they were when it was written.
C16_RoundTrip ==
    [][\A t \in Threads :
          SaveDumpInteractions(t) =>
              load_profiles(profiles_file', interactions_file')
                  = [profiles |-> profiles,
                     interaction_history |-> interaction_history]]_vars

\* a new bank was loaded from a snapshot of a profile with two questions asked
\* and two programs viewed, and of an interaction whose topic is None
C16_Witness ==
    \E t \in Threads :
        /\ pc[t] = "idle"
        /\ local[t].op = "BatesMemoryBank"
        /\ local[t].bank = [profiles |-> profiles,
                            interaction_history |-> interaction_history]
        /\ "alice" \in DOMAIN profiles
        /\ Len(profiles["alice"].programs_viewed) = 2
        /\ Len(profiles["alice"].questions_asked) = 2
        /\ "alice" \in DOMAIN interaction_history
        /\ \E k \in 1..Len(interaction_history["alice"]) :
               DictGet(interaction_history["alice"][k].metadata, "topic", "none") = None

\* a step that is a get_session or an update_session finding session sid,
\* called for itself or by record_interaction
ReadsOrUpdates(t, sid) ==
    \/ GetSession(t, sid)
    \/ \E updates \in UpdateInputs : UpdateFields(t, sid, updates)
    \/ RecordGet(t, sid)
    \/ RecordUpdate(t) /\ local[t].session_id = sid

\* C17: over create, get_session, update_session, record_interaction and
\* sweep steps no session's last_activity decreases, and a get_session or an
\* update_session that finds the session leaves last_activity at the time of
\* the call, also when the fields of the update hold a last_activity.
C17_LastActivityRefreshed ==
    [][/\ \A sid \in DOMAIN active_sessions \cap DOMAIN active_sessions' :
              active_sessions'[sid].last_activity >= active_sessions[sid].last_activity
       /\ \A t \in Threads, sid \in DOMAIN active_sessions :
              ReadsOrUpdates(t, sid) =>
                  /\ sid \in DOMAIN active_sessions'
                  /\ active_sessions'[sid].last_activity = now]_vars

\* update_session was given a last_activity older than the time of the call
\* for a session that is there
C17_Witness ==
    \E t \in Threads :
        /\ pc[t] = "idle"
        /\ local[t].op = "update_session"
        /\ "last_activity" \in DOMAIN local[t].updates
        /\ local[t].session_id \in DOMAIN active_sessions
        /\ active_sessions[local[t].session_id].created_at > local[t].updates.last_activity

\* C18: a sweep with a ttl, having read the time `now` when it was called,
\* removes in one step exactly the sessions whose last_activity is older than
\* now - ttl as the table stands at that step, and leaves every other session
\* there with all its fields; creates, reads and updates of other threads
\* fall before or after that step.
C18_SweepRemovesExactlyExpired ==
    [][\A t \in Threads :
          /\ \A ttl \in AgeInputs :
                 SweepCutoff(t, ttl) => local'[t].cutoff_time = now - ttl
          /\ SweepRemove(t) =>
                 /\ DOMAIN active_sessions' \subseteq DOMAIN active_sessions
                 /\ \A sid \in DOMAIN active_sessions :
                        IF active_sessions[sid].last_activity < local[t].cutoff_time
                        THEN sid \notin DOMAIN active_sessions'
                        ELSE /\ sid \in DOMAIN active_sessions'
                             /\ active_sessions'[sid] = active_sessions[sid]
                             /\ dict_heap'[sid] = dict_heap[sid]]_vars

\* a sweep has removed a session and kept one that was created before the
\* cutoff and touched since
C18_Witness ==
    \E t \in Threads :
        /\ pc[t] = "idle"
        /\ local[t].op = "cleanup_expired_sessions"
        /\ local[t].expired_sessions # {}
        /\ \E sid \in DOMAIN active_sessions :
               active_sessions[sid].created_at < local[t].cutoff_time

\* C19: record_interaction with a session id that is not in the registry
\* returns without raising and leaves every session, interaction history and
\* profile, the interactions_stored count and the snapshot files as they were.
C19_UnknownSessionNoOp ==
    [][\A t \in Threads, sid \in SessionInputs :
          (RecordGet(t, sid) /\ sid \notin DOMAIN active_sessions) =>
              /\ active_sessions' = active_sessions
              /\ dict_heap' = dict_heap
              /\ interaction_history' = interaction_history
              /\ profiles' = profiles
              /\ counters' = counters
              /\ profiles_file' = profiles_file
              /\ interactions_file' = interactions_file
              /\ raised' = raised
              /\ pc'[t] = "idle"
              /\ local'[t] = [op |-> "record_interaction", found |-> FALSE]]_vars

\* record_interaction has returned for an unknown session id while the
\* registry and the bank hold a session and a history
C19_Witness ==
    \E t \in Threads :
        /\ pc[t] = "idle"
        /\ local[t] = [op |-> "record_interaction", found |-> FALSE]
        /\ DOMAIN active_sessions # {}
        /\ DOMAIN interaction_history # {}

\* create_session has returned session id sid to thread t, which has done
\* nothing since
JustCreated(t, sid) ==
    /\ pc[t] = "idle"
    /\ local[t].op = "create_session"
    /\ "error" \notin DOMAIN local[t]
    /\ local[t].session_id = sid

\* C20: create_session gives the session the student id it was called with,
\* or an anonymous id made from the session id when that is None or empty,
\* and get_session(id) called next returns a session whose interaction_count
\* is 0 and whose student_id is not empty.
C20_CreateThenGet ==
    [][\A t \in Threads :
          /\ \A student_id \in StudentInputs :
                 CreateRegister(t, student_id) =>
                     active_sessions'[next_uuid].student_id =
                         IF student_id = None \/ student_id = ""
                         THEN AnonymousId(next_uuid) ELSE student_id
          /\ \A sid \in SessionInputs :
                 (JustCreated(t, sid) /\ GetSession(t, sid)) =>
                     /\ local'[t].found
                     /\ local'[t].session.session_id = sid
                     /\ local'[t].session.interaction_count = 0
                     /\ local'[t].session.student_id \notin {None, ""}]_vars

\* get_session has returned a session that was created without a student id,
\* while another session has interactions recorded
C20_Witness ==
    \E t \in Threads :
        /\ pc[t] = "idle"
        /\ local[t].op = "get_session"
        /\ local[t].found
        /\ local[t].session.interaction_count = 0
        /\ local[t].session.student_id = AnonymousId(local[t].session.session_id)
        /\ \E sid \in DOMAIN active_sessions : active_sessions[sid].interaction_count > 0

\* the number of get_or_create_profile calls made for a student
ProfileCalls(student_id) == DictGet(tally, <<"get_or_create_profile", student_id>>, 0)

\* C21: get_or_create_profile makes a profile only for a student_id it has
\* not seen, so under every interleaving of concurrent calls a student has
\* one profile, never replaced by a second; every call adds exactly one to
\* the profile's interaction_count and sets last_active to the time of the
\* call, so after k calls for a new student interaction_count is k, and it
\* never decreases.
C21_OneProfileCountsCalls ==
    /\ [](\A s \in DOMAIN profiles :
            /\ profiles[s].student_id = s
            /\ profiles[s].interaction_count = ProfileCalls(s))
    /\ [][\A s \in DOMAIN profiles' :
            IF s \in DOMAIN profiles
            THEN /\ profiles'[s].created_at = profiles[s].created_at
                 /\ profiles'[s].interaction_count >= profiles[s].interaction_count
                 /\ ProfileCalls(s)' = ProfileCalls(s) + 1 =>
                        /\ profiles'[s].interaction_count =
                               profiles[s].interaction_count + 1
                        /\ profiles'[s].last_active = now
                 /\ ProfileCalls(s)' = ProfileCalls(s) =>
                        profiles'[s].last_active = profiles[s].last_active
            ELSE /\ ProfileCalls(s)' = 1
                 /\ profiles'[s].interaction_count = 1
                 /\ profiles'[s].created_at = now
                 /\ profiles'[s].last_active = now]_vars

\* both threads have called get_or_create_profile for alice, one of them
\* after the clock advanced: her one profile counts the three calls made
C21_Witness ==
    /\ \A t \in Threads :
           /\ pc[t] = "idle"
           /\ local[t].op = "get_or_create_profile"
           /\ local[t].profile_ref = "alice"
    /\ ProfileCalls("alice") = 3
    /\ profiles["alice"].interaction_count = 3
    /\ profiles["alice"].created_at = 0
    /\ profiles["alice"].last_active = 1
    /\ "bob" \in DOMAIN profiles

\* the number of add_question / add_recommendation calls made on a profile
Asked(student_id) == DictGet(tally, <<"add_question", student_id>>, 0)
Recommended(student_id) == DictGet(tally, <<"add_recommendation", student_id>>, 0)

\* C22: after every sequence of add_question and add_recommendation calls on
\* a profile, questions_asked holds at most 50 entries and
\* recommendations_given at most 20, and each list is the most recently
\* added entries, oldest first (the limit drops the oldest).
C22_ListsCappedMostRecent ==
    \A s \in DOMAIN profiles :
        LET q == profiles[s].questions_asked
            r == profiles[s].recommendations_given
        IN  /\ Len(q) = Min(Asked(s), QuestionsCap)
            /\ \A k \in 1..Len(q) :
                   q[k].question = "question " \o ToString(Asked(s) - Len(q) + k)
            /\ Len(r) = Min(Recommended(s), RecommendationsCap)
            /\ \A k \in 1..Len(r) :
                   r[k].recommendation =
                       "recommendation " \o ToString(Recommended(s) - Len(r) + k)

\* two questions and two recommendations more than the caps were added: both
\* lists are at their caps and begin with the third entry added
C22_Witness ==
    /\ "alice" \in DOMAIN profiles
    /\ Asked("alice") = QuestionsCap + 2
    /\ Recommended("alice") = RecommendationsCap + 2
    /\ Len(profiles["alice"].questions_asked) = QuestionsCap
    /\ Len(profiles["alice"].recommendations_given) = RecommendationsCap
    /\ profiles["alice"].questions_asked[1].question = "question 3"
    /\ profiles["alice"].recommendations_given[1].recommendation = "recommendation 3"

\* the step in which the _save_profiles run of thread t ends at a failed write
FailedSave(t) ==
    /\ pc[t] \in SavePlaces
    /\ pc'[t] = "idle"
    /\ ~(pc[t] = "save_dump_interactions" /\ interactions_file'.status = "complete")

\* C23: a snapshot I/O failure at any step of _save_profiles does not reach
\* the caller of store_interaction: the call returns normally, the profiles
\* and interaction histories in memory are as they were, and the lock is
\* free again, so later reads and writes are served from memory.
C23_SaveFailureContained ==
    [][\A t \in Threads :
          FailedSave(t) =>
              /\ profiles' = profiles
              /\ interaction_history' = interaction_history
              /\ counters' = counters
              /\ raised' = raised
              /\ "error" \notin DOMAIN local'[t]
              /\ bank_lock' = None]_vars

\* the save started by the 10th store failed after profiles.json was opened;
\* an 11th interaction was stored and the profile read after that
C23_Witness ==
    \E t \in Threads, u \in Threads :
        /\ pc[t] = "idle" /\ pc[u] = "idle"
        /\ local[t].op = "store_interaction"
        /\ "save_failed" \in DOMAIN local[t]
        /\ local[t].stored = SaveEvery
        /\ profiles_file.status = "partial"
        /\ local[u].op = "get_or_create_profile"
        /\ Len(interaction_history["alice"]) = SaveEvery + 1
        /\ profiles["alice"].interaction_count = 1
        /\ raised = {}

\* C24: the removal of sessions never removes or changes a StudentProfile or
\* an interaction history, and across every step of every operation the
\* profiles and the histories are those of a growing set of student ids (a
\* profile once created is kept).
C24_ProfilesOutliveSessions ==
    [][/\ DOMAIN profiles \subseteq DOMAIN profiles'
       /\ DOMAIN interaction_history \subseteq DOMAIN interaction_history'
       /\ DOMAIN active_sessions \ DOMAIN active_sessions' # {} =>
              /\ profiles' = profiles
              /\ interaction_history' = interaction_history]_vars

\* a sweep removed alice's only session after an interaction was recorded on
\* it: her profile and her history are still in the bank
C24_Witness ==
    \E t \in Threads :
        /\ pc[t] = "idle"
        /\ local[t].op = "cleanup_expired_sessions"
        /\ local[t].expired_sessions # {}
        /\ \A sid \in DOMAIN active_sessions :
               active_sessions[sid].student_id # "alice"
        /\ "alice" \in DOMAIN profiles
        /\ "alice" \in DOMAIN interaction_history
        /\ Len(interaction_history["alice"]) = 1

\* a snapshot file is missing
SomeFileMissing == profiles_file.status = "absent" \/ interactions_file.status = "absent"

\* C25: a memory bank made when one or both snapshot files are missing is
\* made without an error: the store of a missing file is empty, and the
\* store of a file that is there holds all of it (written out again, the
\* store is the file's content).
C25_MissingFilesStartEmpty ==
    [][\A t \in Threads :
          (LoadFresh(t) /\ SomeFileMissing /\ profiles_file.status # "partial"
                        /\ interactions_file.status # "partial") =>
              LET bank == local'[t].bank
              IN  /\ raised' = raised
                  /\ local'[t].op = "BatesMemoryBank"
                  /\ IF profiles_file.status = "absent"
                     THEN bank.profiles = << >>
                     ELSE ProfilesSnapshot(bank.profiles) = profiles_file.data
                  /\ IF interactions_file.status = "absent"
                     THEN bank.interaction_history = << >>
                     ELSE json_dump(bank.interaction_history) = interactions_file.data]_vars

\* a bank was made with profiles.json deleted and interactions.json in
\* place: it has no profile and it has alice's history
C25_Witness ==
    \E t \in Threads :
        /\ pc[t] = "idle"
        /\ local[t].op = "BatesMemoryBank"
        /\ profiles_file.status = "absent"
        /\ interactions_file.status = "complete"
        /\ local[t].bank.profiles = << >>
        /\ "alice" \in DOMAIN local[t].bank.interaction_history
        /\ local[t].bank.interaction_history = interaction_history

\* a handle_multi_agent_query call has returned, its session is in the table
\* and every specialist run it made succeeded
HandledLive(t) ==
    /\ Handled(t)
    /\ local[t].session_id \in DOMAIN active_sessions
    /\ \A key \in DOMAIN local[t].invoked : local[t].invoked[key] = "ok"

\* C26: every one of the handle_multi_agent_query calls made one after the
\* other on the same live session, with every specialist run succeeding,
\* returns an envelope with status success (what one call records does not
\* make the context fetch of a later call fail).
C26_ConsecutiveHandlesSucceed ==
    \A t \in Threads : HandledLive(t) => local[t].envelope.status = "success"

C28_SaveOutsideLock ==
    \A t \in Threads : pc[t] \in SavePlaces => bank_lock # t

\* C29: in no reachable state does a thread hold the session manager's lock
\* and the memory bank's lock at the same time, whichever operations of the
\* session manager and of the memory bank the threads run.
C29_LocksNeverNested ==
    \A t \in Threads : ~(Holder("session") = t /\ Holder("bank") = t)

\* a thread in record_interaction holds the bank's lock, after its blocks
\* under the session manager's lock, while the other thread holds the session
\* manager's lock
C29_Witness ==
    \E t \in Threads, u \in Threads :
        /\ pc[t] = "locks"
        /\ local[t].op = "record_interaction"
        /\ Holder("bank") = t
        /\ Holder("session") = u
        /\ u # t

\* C30: no operation waits for ever: under fair scheduling, and with file
\* writes that end, every operation a thread has started returns, counting
\* the metrics' and the tracer's locks taken inside it.
C30_EveryOperationReturns ==
    \A t \in Threads : (pc[t] = "locks") ~> (pc[t] = "idle")

\* a thread waits for the bank's lock while the other writes a snapshot file
\* holding it
C30_Witness ==
    \E t \in Threads, u \in Threads :
        /\ pc[t] = "locks" /\ pc[u] = "locks"
        /\ NextEvent(t) = Ev("acquire", "bank")
        /\ Holder("bank") = u
        /\ u # t
        /\ NextEvent(u)[1] = "io"

-----------------------------------------------------------------------------
(* The metrics sink beside the memory bank *)

\* reset_metrics calls made in a run
MaxResets == 1

\* BatesMetrics.reset_metrics: counters.clear()
reset_metrics(c) == EmptyDict

\* a caller of the metrics sink resets it between two calls of the bank
ResetMetrics(t) ==
    /\ pc[t] = "idle"
    /\ DictGet(tally, <<"reset_metrics", None>>, 0) < MaxResets
    /\ counters' = reset_metrics(counters)
    /\ tally' = Bump(tally, <<"reset_metrics", None>>)
    /\ UNCHANGED <<now, viewed, monitorVars, sessVars, profiles, interaction_history,
                   fileVars, bank_lock, pc, local, calls, completed, forwarded,
                   recorded, raised, saves_started>>

\* one caller stores interactions one after the other; the metrics are reset
\* at some point between two of them
NextMetrics ==
    \/ \E t \in Handlers : StoreCall(t, "alice", MaxBankStores, "store_check")
    \/ \E t \in Handlers : StoreCheck(t)
    \/ \E t \in Handlers : ResetMetrics(t)

SpecMetrics == Init /\ [][NextMetrics]_vars

\* C31: the state of the metrics sink has no influence on when snapshots are
\* written: after the same store_interaction calls, a run in which the metrics
\* were reset has written as many snapshots as the run in which they were
\* not, which writes one at every SaveEvery-th call.
C31_SavesIndependentOfMetrics ==
    AllIdle => saves_started = calls \div SaveEvery

-----------------------------------------------------------------------------
(* Recorded interactions and the student's profile *)

\* C32: every record_interaction on a live session changes the profile of the
\* session's student (its last_active or its interaction_count at least), and
\* a student with an interaction history has a profile: the step that stores
\* the interaction leaves a profile for the student that differs from the one
\* before the step.
C32_RecordUpdatesProfile ==
    [][\A t \in Threads :
          (pc[t] = "record_store" /\ pc'[t] = "store_check") =>
              LET student_id == local[t].session.student_id
              IN  /\ student_id \in DOMAIN interaction_history'
                  /\ student_id \in DOMAIN profiles'
                  /\ student_id \in DOMAIN profiles =>
                         profiles'[student_id] # profiles[student_id]]_vars

-----------------------------------------------------------------------------
(* handle_multi_agent_query with a session id the registry does not hold *)

\* C33: handle_multi_agent_query called with a session id that is not in the
\* registry does not raise: the call returns status "error", and from its
\* first step to its return it creates no session, runs no specialist and
\* records no interaction.
C33_UnknownSessionIsAnError ==
    [][\A t \in Handlers :
          /\ (pc[t] = "idle" /\ pc'[t] = "handle_get_session") =>
                 /\ active_sessions' = active_sessions
                 /\ bankVars' = bankVars
          /\ (/\ pc[t] = "handle_get_session"
              /\ pc'[t] # pc[t]
              /\ local[t].session_id \notin DOMAIN active_sessions) =>
                 /\ pc'[t] = "idle"
                 /\ local'[t].op = "handle_multi_agent_query"
                 /\ local'[t].envelope.status = "error"
                 /\ local'[t].invoked = EmptyDict
                 /\ raised' = raised
                 /\ active_sessions' = active_sessions
                 /\ next_uuid' = next_uuid
                 /\ bankVars' = bankVars
                 /\ recorded' = recorded]_vars

\* a handle call on an unknown session id has returned its error while the
\* registry holds another session, whose student has interactions
C33_Witness ==
    \E t \in Handlers :
        /\ Handled(t)
        /\ local[t].session_id \notin DOMAIN active_sessions
        /\ local[t].envelope = ErrorEnvelope("TypeError")
        /\ local[t].invoked = EmptyDict
        /\ \E other \in DOMAIN active_sessions :
               active_sessions[other].student_id \in DOMAIN interaction_history

-----------------------------------------------------------------------------
(* The keys of the responses handle_multi_agent_query returns *)

\* the specialist whose run stands under a key of `responses`
RoleOf(key) ==
    CASE key = "academics_perspective" -> "academics"
      [] key = "financial_perspective" -> "financial_aid"
      [] OTHER -> key

\* C34: the keys of `responses` in a success envelope follow from the query
\* and the routing decision: the primary specialist's key is there exactly
\* when the specialist is not "general"; "academics_perspective" only for a
\* query with a complex keyword whose primary is not academics;
\* "financial_perspective" only for a query containing "program" whose primary
\* is not financial_aid; there are at most three entries and no two of them
\* come from the same specialist.
C34_ResponseKeysFollowRouting ==
    \A t \in Handlers :
        (Handled(t) /\ local[t].envelope.status = "success") =>
            LET e == local[t].envelope
                q == Lower(local[t].query)
                keys == DOMAIN e.responses
            IN  /\ e.primary_specialist = route_to_specialist(local[t].query).specialist
                /\ (e.primary_specialist \in keys) <=> (e.primary_specialist # "general")
                /\ keys \subseteq ({e.primary_specialist} \cup AuxiliaryKeys) \ {"general"}
                /\ "academics_perspective" \in keys =>
                       /\ AnyKeyword(ComplexKeywords, q)
                       /\ e.primary_specialist # "academics"
                /\ "financial_perspective" \in keys =>
                       /\ Contains(ProgramKeyword, q)
                       /\ e.primary_specialist # "financial_aid"
                /\ Cardinality(keys) <= 3
                /\ \A k1 \in keys, k2 \in keys : RoleOf(k1) = RoleOf(k2) => k1 = k2

\* a call returned three entries: the primary's (admissions) and both
\* perspectives
C34_Witness ==
    \E t \in Handlers :
        /\ Handled(t)
        /\ local[t].envelope.status = "success"
        /\ DOMAIN local[t].envelope.responses =
               {"admissions", "academics_perspective", "financial_perspective"}

\* a call returned the primary's entry alone for a query with no complex
\* keyword
PrimaryAlone ==
    \E t \in Handlers :
        /\ Handled(t)
        /\ local[t].envelope.status = "success"
        /\ DOMAIN local[t].envelope.responses = {"financial_aid"}
        /\ ~AnyKeyword(ComplexKeywords, Lower(local[t].query))

-----------------------------------------------------------------------------
(* What a successful handle_multi_agent_query call records *)

\* handle_multi_agent_query calls on the session that returned status "success"
Succeeded(session_id) ==
    DictGet(tally, <<"handle_multi_agent_query", ToString(session_id)>>, 0)

\* C35: a successful handle_multi_agent_query call that runs alone on its
\* session records exactly two interactions, the "routing" one and then the
\* "multi_agent_query" one, and raises the session's interaction_count by two:
\* between calls, a session on which n calls succeeded has interaction_count
\* 2n and its student's history is n such pairs.
C35_TwoRecordsPerHandle ==
    (\A t \in Handlers : pc[t] = "idle") =>
        \A session_id \in DOMAIN active_sessions :
            LET session == active_sessions[session_id]
                history == DictGet(interaction_history, session.student_id, << >>)
                n == Succeeded(session_id)
            IN  /\ session.interaction_count = 2 * n
                /\ Len(history) = 2 * n
                /\ \A k \in 1..n :
                       /\ history[2 * k - 1].type = "routing"
                       /\ history[2 * k].type = "multi_agent_query"

\* two calls on one session have succeeded
C35_Witness ==
    /\ \A t \in Handlers : pc[t] = "idle"
    /\ \E session_id \in DOMAIN active_sessions :
           /\ Succeeded(session_id) = 2
           /\ active_sessions[session_id].interaction_count = 4

-----------------------------------------------------------------------------
(* Anonymous student ids *)

\* the texts uuid4 gives in these runs: two of them start with the same 8
\* characters
UuidInputs == {1, 2, 1 + PrefixSpace}

\* sessions are created without a student id
NextAnonymous ==
    \/ Tick
    \/ \E t \in Threads, student_id \in {None, ""}, session_id \in UuidInputs :
           CreateRegisterAs(t, student_id, session_id)
    \/ \E t \in Threads : ContextProfile(t)
    \/ \E t \in Threads : ContextSummary(t)

SpecAnonymous == Init /\ [][NextAnonymous]_vars

\* C36: two distinct sessions created without a student id never have the
\* same anonymous student id, and so never share a profile or a history.
C36_AnonymousIdsDistinct ==
    \A s1 \in DOMAIN active_sessions, s2 \in DOMAIN active_sessions :
        s1 # s2 => active_sessions[s1].student_id # active_sessions[s2].student_id

-----------------------------------------------------------------------------
(* The tracer's list of traces under nested and concurrent monitored calls *)

\* monitored operations started in a run
MaxTraced == 2

\* route_to_specialist with a session id: record_interaction on a session
\* that is found, then the counter of the specialist
route_to_specialist_locks ==
    monitor_performance_locks(
        record_interaction_locks(TRUE, TRUE, FALSE) \o increment_counter_locks)

\* the monitored operations of these runs: one that calls no other, and two
\* that call monitored operations inside them
TracedScripts ==
    {[op |-> "get_session", script |-> get_session_locks],
     [op |-> "create_session", script |-> create_session_locks(TRUE)],
     [op |-> "route_to_specialist", script |-> route_to_specialist_locks]}

\* a thread calls a monitored operation
TracedBegin(t, s) ==
    /\ calls < MaxTraced
    /\ calls' = calls + 1
    /\ pc[t] = "idle"
    /\ Goto(t, "locks", [op |-> s.op, script |-> s.script, at |-> 1])
    /\ UNCHANGED <<now, sessVars, bankVars, fileVars, bank_lock, monitorVars,
                   completed, forwarded, recorded, saves_started, viewed, tally>>

\* the locked blocks of start_trace (the trace is appended with status
\* "started" and made current) and of end_trace (the current trace gets its
\* status and current_trace is cleared; when another thread cleared it after
\* the `if`, the item assignment on None raises TypeError, the `with` gives
\* the lock back and the exception leaves the operation)
TraceRecord(t) ==
    /\ pc[t] = "locks"
    /\ NextEvent(t)[1] = "current_trace"
    /\ IF NextEvent(t)[2]
       THEN /\ traces' = Append(traces, "started")
            /\ current_trace' = TRUE
            /\ Advance(t, local[t].at + 1)
            /\ UNCHANGED lock_holder
       ELSE IF current_trace
            THEN /\ traces' = [traces EXCEPT ![Len(traces)] = "completed"]
                 /\ current_trace' = FALSE
                 /\ Advance(t, local[t].at + 1)
                 /\ UNCHANGED lock_holder
            ELSE /\ lock_holder' = [lock_holder EXCEPT !["tracer"] = None]
                 /\ Finish(t, [op |-> local[t].op, error |-> "TypeError"], "raised")
                 /\ UNCHANGED <<traces, current_trace>>
    /\ UNCHANGED <<now, sessVars, bankVars, fileVars, bank_lock, calls,
                   completed, forwarded, recorded, saves_started, viewed, tally>>

\* threads run monitored operations; the tracer keeps every trace
NextTraces ==
    \/ \E t \in Threads, s \in TracedScripts : TracedBegin(t, s)
    \/ \E t \in Threads : LockAcquire(t)
    \/ \E t \in Threads : LockRelease(t)
    \/ \E t \in Threads : TraceRecord(t)
    \/ \E t \in Threads : TraceTest(t)

SpecTraces == Init /\ [][NextTraces]_vars

\* C37: every trace a monitored operation starts is ended when the operation
\* returns or raises: once every monitored call has returned, no trace has
\* status "started", also when monitored operations are nested or concurrent.
C37_NoTraceLeftStarted ==
    AllIdle => \A k \in 1..Len(traces) : traces[k] # "started"
====
